---- MODULE Spec2Model ----
(***************************************************************************)
(* The resilient invocation layer of services/webhook.ts: the failure      *)
(* classifier isQuotaError, the retry executor withRetry, the model        *)
(* fallback router withModelFallback and the facade operations built on    *)
(* them, the payload extractor extractJson and the response normalisers    *)
(* of callWebhookTool.                                                     *)
(***************************************************************************)
EXTENDS Integers, Sequences, FiniteSets, TLC

VARIABLES
    call,     \* the one top-level call in flight (a record, see IdleCall)
    probe,    \* the failure value handed to isQuotaError on its own
    verdict,  \* what isQuotaError answered for probe ("none" before the call)
    extraction, \* one extractJson call: its text and what it returned
    webhook,  \* one callWebhookTool call: its request, the response, its outcome
    summary,  \* one run of a summary mapping: the upstream item and its record
    pair,     \* two calls in flight at once (a function from 1..2 to call records)
    strategy, \* one run of the closure of generateKeywordStrategy
    reply,    \* one run of the closure of a free-text operation
    wizard,   \* the wizard of App: appState, activeStep, highestCompletedStepIndex
    audio     \* the Publish component: audioContextRef and the contexts it made

vars == <<call, probe, verdict, extraction, webhook, summary, pair, strategy, reply, wizard, audio>>


(***************************************************************************)
(* JavaScript values that a failure's fields and a parsed response can     *)
(* hold. Every value is a record with a type tag so that === on scalars is *)
(* record equality.                                                        *)
(***************************************************************************)
Undef == [t |-> "undefined", n |-> 0, s |-> ""]

Null == [t |-> "null", n |-> 0, s |-> ""]

Num(k) == [t |-> "number", n |-> k, s |-> ""]

Str(x) == [t |-> "string", n |-> 0, s |-> x]

\* An array of values and an object with the given fields (a record).
Arr(items) == [t |-> "array", n |-> 0, s |-> "", items |-> items]

Obj(fields) == [t |-> "object", n |-> 0, s |-> "", fields |-> fields]

\* ToBoolean: undefined, null, 0 and "" are falsy; arrays and objects are not.
Truthy(v) ==
    CASE v.t = "undefined" -> FALSE
      [] v.t = "null" -> FALSE
      [] v.t = "number" -> v.n # 0
      [] v.t = "string" -> v.s # ""
      [] v.t \in {"array", "object"} -> TRUE

\* a || b
Or(a, b) == IF Truthy(a) THEN a ELSE b

\* No extractJson call has been made.
IdleExtraction == [pc |-> "idle", text |-> "", result |-> ""]

\* No callWebhookTool call has been made: no answer, no outcome.
NoAnswer == [kind |-> "none", status |-> 0, text |-> "", data |-> Undef]

NoOutcome == [state |-> "none", value |-> Undef, message |-> ""]

IdleWebhook == [pc |-> "idle", func |-> "", answer |-> NoAnswer, outcome |-> NoOutcome]

\* String.prototype.includes: p occurs in s as a contiguous substring.
Includes(s, p) ==
    \E i \in 1..(Len(s) - Len(p) + 1) : SubSeq(s, i, i + Len(p) - 1) = p

(***************************************************************************)
(* Failure values. kind "object" is any object (an Error, an API error);   *)
(* "primitive" is a thrown non-object such as a string, whose property     *)
(* reads give undefined; null and undefined have no properties at all.     *)
(* id is the number of the task invocation that threw the value: it tells  *)
(* one thrown object from another with equal fields.                       *)
(***************************************************************************)
Failure(kind, status, code, message, id) ==
    [kind |-> kind, status |-> status, code |-> code, message |-> message, id |-> id]

ApiError(status, code, message) == Failure("object", status, code, message, 0)

\* new Error(text): an object with a message and neither status nor code.
NewError(text, id) == Failure("object", Undef, Undef, Str(text), id)

NoFailure == Failure("none", Undef, Undef, Undef, 0)

\* The statuses isQuotaError compares with ===.
TransientStatusesWith403 ==
    {Num(429), Num(503), Num(500), Num(403), Str("RESOURCE_EXHAUSTED"),
     Str("PERMISSION_DENIED")}

TransientStatuses ==
    {Num(429), Num(503), Num(500), Str("RESOURCE_EXHAUSTED"), Str("PERMISSION_DENIED")}

\* The substrings isQuotaError looks for in the message, in the code's order.
QuotaSubstrings ==
    <<"429", "quota", "RESOURCE_EXHAUSTED", "Too Many Requests",
      "Rpc failed", "xhr error", "500", "overloaded">>

\* const status = error.status || error.code;
StatusOfCodeFirst(error) == Or(error.code, error.status)

StatusOf(error) == Or(error.status, error.code)

\* The message part of the disjunction: error.message && (includes ... ).
\* A truthy message that is no string has no includes method: TypeError.
MessageVerdict(message) ==
    IF ~Truthy(message) THEN "falsy"
    ELSE IF message.t # "string" THEN "throws"
    ELSE IF \E i \in 1..Len(QuotaSubstrings) : Includes(message.s, QuotaSubstrings[i])
         THEN "truthy"
         ELSE "falsy"

\* isQuotaError(error): "truthy" or "falsy" for the value returned, "throws"
\* when the evaluation raises a TypeError (error.status read on null or
\* undefined, message.includes on a non-string).
isQuotaError(error) ==
    IF error.kind \in {"null", "undefined"} THEN "throws"
    ELSE IF StatusOf(error) \in TransientStatuses THEN "truthy"
    ELSE MessageVerdict(error.message)

\* The TypeError isQuotaError raises for `error`.
ClassifierTypeError(error, id) ==
    IF error.kind = "null"
    THEN NewError("Cannot read properties of null (reading 'status')", id)
    ELSE IF error.kind = "undefined"
    THEN NewError("Cannot read properties of undefined (reading 'status')", id)
    ELSE NewError("error.message.includes is not a function", id)

(***************************************************************************)
(* The classifier on its own: isQuotaError applied to one failure value    *)
(* drawn from bounded sets of statuses, codes and messages.                *)
(***************************************************************************)
\* A message is at most MaxMsgWords words of Words put end to end.
MaxMsgWords == 2

Words ==
    {"429", "42", "9", "quota", "Quota", "RESOURCE_EXHAUSTED", "Too Many Requests",
     "Rpc failed", "xhr error", "500", "overloaded", "Bad Request"}

RECURSIVE Texts(_)
Texts(n) ==
    IF n = 0 THEN {""}
    ELSE LET prev == Texts(n - 1) IN prev \cup {t \o w : t \in prev, w \in Words}

\* Values of the status field: absent, falsy, the listed ones, and
\* near misses (other numbers, the number as a string, another symbol).
StatusValues ==
    {Undef, Null, Num(0), Str(""),
     Num(400), Num(401), Num(403), Num(429), Num(500), Num(503),
     Str("RESOURCE_EXHAUSTED"), Str("PERMISSION_DENIED"), Str("429"), Str("INTERNAL")}

\* Values of the code field: absent, falsy, the listed ones and another number.
CodeValues ==
    {Undef, Num(0), Num(400), Num(429), Num(500), Num(503),
     Str("RESOURCE_EXHAUSTED"), Str("PERMISSION_DENIED")}

\* Values of the message field: absent, a string, or a truthy non-string.
MessageValues == {Undef, Num(429)} \cup {Str(t) : t \in Texts(MaxMsgWords)}

ProbeValues ==
    {ApiError(st, cd, m) : st \in StatusValues, cd \in CodeValues, m \in MessageValues}
    \cup {Failure(k, Undef, Undef, Undef, 0) : k \in {"null", "undefined", "primitive"}}

(***************************************************************************)
(* The calls. An operation is one of the two generic entry points (an      *)
(* opaque task handed to withRetry or to withModelFallback) or a facade    *)
(* operation, whose task is a closure around one remote model call.        *)
(***************************************************************************)
PRIMARY_MODEL == "gemini-3-pro-preview"

FALLBACK_MODEL == "gemini-2.5-flash"

\* withRetry(fn, retries = 3, baseDelay = 2000)
DefaultRetries == 3

DefaultBaseDelay == 2000

\* withRetry(() => primaryFn(PRIMARY_MODEL), 1, 1000)
PrimaryRetries == 1

PrimaryBaseDelay == 1000

\* withRetry(() => fallbackFn(FALLBACK_MODEL), 3, 2000)
FallbackRetries == 3

FallbackBaseDelay == 2000

\* withRetry(tryNanoBanana, 1, 1000) and withRetry(tryImagen4, 1, 2000)
NanoRetries == 1

NanoBaseDelay == 1000

ImagenRetries == 1

ImagenBaseDelay == 2000

\* Facade operations whose closure catches every failure of its try block and
\* throws a new Error carrying a fixed task message; run by withRetry(closure).
RelabelOps ==
    {"generateTopicIdeas", "generateTopicIdeasForWebsite", "analyzeCompetitors",
     "findEeatSources", "generateOutlineSuggestions", "generateOutline",
     "refineOutlineWithAI", "editArticleImage", "regenerateTitle", "generateSpeech",
     "generateSocialPosts"}

\* The closure's catch block returns [] instead of throwing.
SwallowOps == {"selectRelevantInternalLinks"}

\* Facade operations run by withModelFallback; the closure rethrows the failure.
\* The first three return response.text.trim().
TrimOps == {"reviewArticle", "generateContextualAddition", "transformText"}

FallbackFacadeOps == TrimOps \cup {"generateLongFormContent"}

ImageOps == {"generateArticleImage"}

FacadeOps == RelabelOps \cup SwallowOps \cup FallbackFacadeOps \cup ImageOps

\* Operations whose top level is withModelFallback.
RouterOps == FallbackFacadeOps \cup {"withModelFallback", "chatWithDraft"}

\* The message of the Error a relabelling closure throws.
Label(op) ==
    CASE op = "generateTopicIdeas" ->
            "Failed to generate topic ideas. Please try a different theme."
      [] op = "generateTopicIdeasForWebsite" ->
            "Failed to generate topic ideas for your website. Please check the URL or try a manual theme."
      [] op = "analyzeCompetitors" -> "Failed to analyze competitor data."
      [] op = "findEeatSources" -> "Failed to find E-E-A-T sources."
      [] op = "generateOutlineSuggestions" -> "Failed to generate outline suggestions."
      [] op = "generateOutline" -> "Failed to generate the article outline."
      [] op = "refineOutlineWithAI" -> "Failed to refine the article outline with AI."
      [] op = "editArticleImage" -> "Failed to edit image."
      [] op = "regenerateTitle" -> "Failed to regenerate the title."
      [] op = "generateSpeech" -> "Failed to generate speech."
      [] op = "generateSocialPosts" -> "Failed to generate social posts."

\* The model identifier a task invocation sends to the remote service.
ModelOfPrimaryKept(op, stage) ==
    IF op \in RouterOps THEN PRIMARY_MODEL ELSE "gemini-2.5-flash"

ModelOf(op, stage) ==
    CASE op \in RouterOps -> IF stage = "primary" THEN PRIMARY_MODEL ELSE FALLBACK_MODEL
      [] op \in ImageOps ->
            IF stage = "primary" THEN "gemini-2.5-flash-image" ELSE "imagen-4.0-generate-001"
      [] op \in {"analyzeCompetitors", "findEeatSources", "generateOutline",
                 "refineOutlineWithAI"} -> PRIMARY_MODEL
      [] op = "editArticleImage" -> "gemini-2.5-flash-image"
      [] op = "generateSpeech" -> "gemini-2.5-flash-preview-tts"
      [] op = "withRetry" -> "task"
      [] OTHER -> "gemini-2.5-flash"

(***************************************************************************)
(* What one remote call (or one opaque task) can answer: a response the    *)
(* closure can use, a response it cannot (unparseable JSON, no inline      *)
(* data, no text), or a failure.                                           *)
(***************************************************************************)
RemoteFailures ==
    {ApiError(Num(429), Undef, Str("Too Many Requests")),
     ApiError(Undef, Undef, Str("The model is overloaded")),
     ApiError(Num(400), Undef, Str("Bad Request")),
     ApiError(Str("INTERNAL"), Num(500), Str("Internal error")),
     Failure("null", Undef, Undef, Undef, 0)}

RemoteOutcomes ==
    {[ok |-> TRUE, payload |-> p, err |-> NoFailure] : p \in {"usable", "unusable"}}
    \cup {[ok |-> FALSE, payload |-> "none", err |-> e] : e \in RemoteFailures}

NoValue == [kind |-> "none", model |-> "", attempt |-> 0]

\* The value of a successful invocation names the invocation that made it.
Value(kind, model, attempt) == [kind |-> kind, model |-> model, attempt |-> attempt]

Thrown(e, n) == [ok |-> FALSE, value |-> NoValue, err |-> [e EXCEPT !.id = n]]

Returned(kind, model, n) == [ok |-> TRUE, value |-> Value(kind, model, n), err |-> NoFailure]

\* The closure of a relabelling facade operation: any failure inside its try
\* block (the remote call, JSON.parse, a missing part) becomes new Error(label).
RelabelTask(op, model, r, n) ==
    IF r.ok /\ r.payload = "usable" THEN Returned("data", model, n)
    ELSE Thrown(NewError(Label(op), n), n)

\* selectRelevantInternalLinks: catch (error) { ...; return []; }
SwallowTask(op, model, r, n) ==
    IF r.ok /\ r.payload = "usable" THEN Returned("data", model, n)
    ELSE Returned("emptyList", model, n)

\* A closure that rethrows: catch (error) { ...; throw error; }. With no text
\* in the response, response.text.trim() raises a TypeError inside the try.
RethrowTask(op, model, r, n) ==
    IF ~r.ok THEN Thrown(r.err, n)
    ELSE IF r.payload = "unusable" /\ op \in TrimOps
    THEN Thrown(NewError("Cannot read properties of undefined (reading 'trim')", n), n)
    ELSE Returned("data", model, n)

\* tryNanoBanana / tryImagen4: no try block; no image data is a new Error.
ImageTask(op, stage, model, r, n) ==
    IF ~r.ok THEN Thrown(r.err, n)
    ELSE IF r.payload = "unusable"
    THEN Thrown(NewError(IF stage = "primary" THEN "No image data from Nano Banana."
                         ELSE "No image data from Imagen 4.0.", n), n)
    ELSE Returned("data", model, n)

\* An opaque task: its outcome is the remote outcome.
OpaqueTask(model, r, n) ==
    IF r.ok THEN Returned("data", model, n) ELSE Thrown(r.err, n)

\* The outcome of invocation n of the task of `op`, given the remote outcome r.
TaskOutcome(op, stage, r, n) ==
    LET model == ModelOf(op, stage) IN
    CASE op \in RelabelOps -> RelabelTask(op, model, r, n)
      [] op \in SwallowOps -> SwallowTask(op, model, r, n)
      [] op \in FallbackFacadeOps -> RethrowTask(op, model, r, n)
      [] op \in ImageOps -> ImageTask(op, stage, model, r, n)
      [] OTHER -> OpaqueTask(model, r, n)

(***************************************************************************)
(* One top-level call. pc is "idle" before the call, "inflight" while a    *)
(* task invocation is awaited, "sleeping" while the retry delay runs,      *)
(* "resolved" or "rejected" once the promise has settled. stage is         *)
(* "primary" in a single withRetry and in the first withRetry of a         *)
(* two-stage operation, "fallback" in the second. log records, in order,   *)
(* every invocation, every settled invocation and every delay. abortedAt   *)
(* is the length of the log when the caller's context ended, 0 while it    *)
(* has not.                                                                *)
(***************************************************************************)
\* Largest retries argument given to the generic withRetry.
MaxRetries == 3

\* baseDelay arguments given to the generic withRetry.
BaseDelays == {1000, 2000}

IdleCall ==
    [op |-> "none", pc |-> "idle", stage |-> "primary",
     retries |-> 0, baseDelay |-> 0, retries0 |-> 0, baseDelay0 |-> 0,
     log |-> <<>>, err |-> NoFailure, result |-> NoValue, abortedAt |-> 0]

\* No summary mapping has run.
IdleSummary ==
    [pc |-> "idle", op |-> "", item |-> Undef,
     result |-> [ok |-> TRUE, value |-> Undef, error |-> ""]]

\* No concurrent calls have been made. overtook records that the call has
\* taken a step while the other one was in its retry delay.
IdlePair == [i \in 1..2 |-> [c |-> IdleCall, overtook |-> FALSE]]

\* generateKeywordStrategy's closure has not been entered.
IdleStrategy ==
    [pc |-> "idle", topic |-> "", answer |-> "none", seeds |-> Undef, started |-> 0,
     pending |-> {}, failed |-> {}, results |-> <<>>, suggestions |-> <<>>,
     log |-> <<>>, outcome |-> NoOutcome]

\* No free-text closure has run.
IdleReply ==
    [pc |-> "idle", op |-> "", ok |-> TRUE, text |-> Undef, thrown |-> NoFailure,
     out |-> [ok |-> TRUE, value |-> Undef, err |-> NoFailure]]

\* The state getInitialState returns when nothing is stored, and the one
\* handleRestart sets (App.tsx lines 50 and 142).
DefaultState ==
    [websiteUrl |-> "", country |-> "", language |-> "", topic |-> "",
     outline |-> <<>>, draft |-> "", imageUrl |-> "", internalLinks |-> <<>>]

\* localStorage holds no item under 'rankensteinAppState'.
NoItem == [present |-> FALSE, state |-> DefaultState]

\* App on a first visit, before its persistence effect has run. storage says
\* that the browser lets the page use localStorage; last names the
\* handler that acted last and index the argument of the last goToStep (-1
\* for the other handlers) and changed the fields of appState to which that
\* handler gave another value; emptyArgument that a completion handler was called
\* with an empty argument.
IdleWizard ==
    [appState |-> DefaultState, activeStep |-> "Setup",
     highestCompletedStepIndex |-> -1, stored |-> NoItem,
     storage |-> TRUE, last |-> "none", index |-> -1, changed |-> {},
     emptyArgument |-> FALSE]

\* Publish is not mounted. Contexts are numbered from 1 in the order they were
\* made; ref = 0 is audioContextRef.current = null, captured the context the
\* pending cleanup closes, used the context handleGenerateAudio handed to
\* decodeAudioData (0: none yet), usedOpen whether it was open then and
\* usedRuns how often the effect had run in the mount by then.
IdleAudio ==
    [mounted |-> FALSE, ref |-> 0, made |-> 0, closed |-> {}, captured |-> 0,
     runs |-> 0, pc |-> "idle", used |-> 0, usedOpen |-> TRUE, usedRuns |-> 0,
     error |-> ""]

Event(ev, c, ms, remote, err) ==
    [ev |-> ev, stage |-> c.stage, model |-> ModelOf(c.op, c.stage),
     left |-> c.retries, ms |-> ms, remote |-> remote, err |-> err]

Count(log, evs) == Cardinality({i \in 1..Len(log) : log[i].ev \in evs})

Invocations(c) == Count(c.log, {"invoke"})

\* withRetry(fn, retries, baseDelay) is entered: fn() is called at once.
withRetry(c, stage, retries, baseDelay) ==
    LET d == [c EXCEPT !.stage = stage, !.retries = retries, !.baseDelay = baseDelay] IN
    [d EXCEPT !.pc = "inflight",
              !.log = Append(@, Event("invoke", d, 0, NoFailure, NoFailure))]

Resolve(c, value) == [c EXCEPT !.pc = "resolved", !.result = value]

Reject(c, e) == [c EXCEPT !.pc = "rejected", !.err = e]

\* if (retries > 0 && isQuotaError(error)): "truthy" retries, "falsy" rethrows
\* error, "throws" lets the classifier's TypeError leave the catch block.
RetryDecisionOffByOne(retries, error) ==
    IF retries > 1 THEN isQuotaError(error) ELSE "falsy"

RetryDecisionLastChance(retries, error) ==
    IF retries = 1 THEN "truthy" ELSE IF retries > 0 THEN isQuotaError(error) ELSE "falsy"

RetryDecisionAnyFailure(retries, error) ==
    IF retries > 0 THEN "truthy" ELSE "falsy"

RetryDecision(retries, error) ==
    IF retries > 0 THEN isQuotaError(error) ELSE "falsy"

\* withRetry(fn, retries - 1, baseDelay * 2)
NextDelayLinear(baseDelay) == baseDelay + 2000

NextDelay(baseDelay) == baseDelay * 2

NextRetriesKept(retries) == retries

NextRetries(retries) == retries - 1

\* withModelFallback's catch: if (isQuotaError(error)) fall back, else rethrow.
FallbackDecisionAlways(error) ==
    IF isQuotaError(error) = "throws" THEN "throws" ELSE "truthy"

FallbackDecision(error) == isQuotaError(error)

\* The withRetry of the current stage has rejected with e: what its caller does.
StageRejectedImageClassified(c, e) ==
    IF c.op \in ImageOps /\ c.stage = "primary"
    THEN IF FallbackDecision(e) = "truthy"
         THEN withRetry(c, "fallback", ImagenRetries, ImagenBaseDelay)
         ELSE Reject(c, e)
    ELSE IF c.op \in RouterOps /\ c.stage = "primary"
    THEN CASE FallbackDecision(e) = "truthy" ->
                 withRetry(c, "fallback", FallbackRetries, FallbackBaseDelay)
           [] FallbackDecision(e) = "throws" ->
                 Reject(c, ClassifierTypeError(e, Invocations(c)))
           [] OTHER -> Reject(c, e)
    ELSE Reject(c, e)

StageRejected(c, e) ==
    IF c.op \in RouterOps /\ c.stage = "primary"
    THEN CASE FallbackDecision(e) = "truthy" ->
                 withRetry(c, "fallback", FallbackRetries, FallbackBaseDelay)
           [] FallbackDecision(e) = "throws" ->
                 Reject(c, ClassifierTypeError(e, Invocations(c)))
           [] OTHER -> Reject(c, e)
    ELSE IF c.op \in ImageOps /\ c.stage = "primary"
    THEN withRetry(c, "fallback", ImagenRetries, ImagenBaseDelay)
    ELSE Reject(c, e)

\* The catch block of withRetry, for the failure e of the awaited invocation.
Caught(c, e) ==
    CASE RetryDecision(c.retries, e) = "truthy" ->
            [c EXCEPT !.pc = "sleeping",
                      !.log = Append(@, Event("sleep", c, c.baseDelay, NoFailure, e))]
      [] RetryDecision(c.retries, e) = "throws" ->
            StageRejected(c, ClassifierTypeError(e, Invocations(c)))
      [] OTHER -> StageRejected(c, e)

\* The awaited invocation settles with `out`, the task's outcome for remote r.
Settled(c, r, out) ==
    IF out.ok
    THEN Resolve([c EXCEPT !.log = Append(@, Event("ok", c, 0, r.err, NoFailure))], out.value)
    ELSE Caught([c EXCEPT !.log = Append(@, Event("fail", c, 0, r.err, out.err))], out.err)

\* The top-level call of `op`.
Begin(op, retries, baseDelay) ==
    LET c == [IdleCall EXCEPT !.op = op, !.retries0 = retries, !.baseDelay0 = baseDelay] IN
    withRetry(c, "primary", retries, baseDelay)

\* withModelFallback(primaryFn): the primary stage is entered.
withModelFallback(op) == Begin(op, PrimaryRetries, PrimaryBaseDelay)

\* generateArticleImage: withRetry(tryNanoBanana, 1, 1000) is entered.
generateArticleImage(op) == Begin(op, NanoRetries, NanoBaseDelay)

StartRetry ==
    /\ call.pc = "idle"
    /\ \E retries \in -1..MaxRetries, baseDelay \in BaseDelays :
          call' = Begin("withRetry", retries, baseDelay)
    /\ UNCHANGED <<probe, verdict, extraction, webhook, summary, pair, strategy, reply, wizard, audio>>

StartFallback ==
    /\ call.pc = "idle"
    /\ call' = withModelFallback("withModelFallback")
    /\ UNCHANGED <<probe, verdict, extraction, webhook, summary, pair, strategy, reply, wizard, audio>>

StartFacade ==
    /\ call.pc = "idle"
    /\ \E op \in FacadeOps :
          call' = CASE op \in RouterOps -> withModelFallback(op)
                    [] op \in ImageOps -> generateArticleImage(op)
                    [] OTHER -> Begin(op, DefaultRetries, DefaultBaseDelay)
    /\ UNCHANGED <<probe, verdict, extraction, webhook, summary, pair, strategy, reply, wizard, audio>>

\* The remote call of the invocation in flight answers.
Settle ==
    /\ call.pc = "inflight"
    /\ \E r \in RemoteOutcomes :
          call' = Settled(call, r, TaskOutcome(call.op, call.stage, r, Invocations(call)))
    /\ UNCHANGED <<probe, verdict, extraction, webhook, summary, pair, strategy, reply, wizard, audio>>

\* setTimeout(resolve, baseDelay) fires: the recursive withRetry is entered.
Wake ==
    /\ call.pc = "sleeping"
    /\ call' = withRetry(call, call.stage, NextRetries(call.retries), NextDelay(call.baseDelay))
    /\ UNCHANGED <<probe, verdict, extraction, webhook, summary, pair, strategy, reply, wizard, audio>>

\* The caller's context ends while the call is pending (the user leaves the
\* step that made the call). withRetry takes no signal and keeps no handle on
\* its timer, so nothing of the call changes.
CallerAbort ==
    /\ call.pc \in {"inflight", "sleeping"}
    /\ call.abortedAt = 0
    /\ call' = [call EXCEPT !.abortedAt = Len(call.log)]
    /\ UNCHANGED <<probe, verdict, extraction, webhook, summary, pair, strategy, reply, wizard, audio>>

Init ==
    /\ call = IdleCall
    /\ probe = NoFailure
    /\ verdict = "none"
    /\ extraction = IdleExtraction
    /\ webhook = IdleWebhook
    /\ summary = IdleSummary
    /\ pair = IdlePair
    /\ strategy = IdleStrategy
    /\ reply = IdleReply
    /\ wizard = IdleWizard
    /\ audio = IdleAudio

Next == StartRetry \/ StartFallback \/ StartFacade \/ Settle \/ Wake \/ CallerAbort

Spec == Init /\ [][Next]_vars

\* isQuotaError(probe) is evaluated.
Classify ==
    /\ verdict = "none"
    /\ verdict' = isQuotaError(probe)
    /\ UNCHANGED <<call, probe, extraction, webhook, summary, pair, strategy, reply, wizard, audio>>

InitClassify ==
    /\ call = IdleCall
    /\ probe \in ProbeValues
    /\ verdict = "none"
    /\ extraction = IdleExtraction
    /\ webhook = IdleWebhook
    /\ summary = IdleSummary
    /\ pair = IdlePair
    /\ strategy = IdleStrategy
    /\ reply = IdleReply
    /\ wizard = IdleWizard
    /\ audio = IdleAudio

NextClassify == Classify

SpecClassify == InitClassify /\ [][NextClassify]_vars

(***************************************************************************)
(* Vocabulary of the properties.                                           *)
(***************************************************************************)
\* s begins with p.
StartsWith(s, p) == Len(s) >= Len(p) /\ SubSeq(s, 1, Len(p)) = p

IsTransient(e) == e.kind # "none" /\ isQuotaError(e) = "truthy"

IsFatal(e) == e.kind # "none" /\ isQuotaError(e) = "falsy"

Terminal(c) == c.pc \in {"resolved", "rejected"}

\* Positions in the log of the events of kind evs in the given stage.
At(c, evs, stage) ==
    {i \in 1..Len(c.log) : c.log[i].ev \in evs /\ c.log[i].stage = stage}

Min(S) == CHOOSE x \in S : \A y \in S : x <= y

Max(S) == CHOOSE x \in S : \A y \in S : x >= y

RECURSIVE Pow2(_)
Pow2(n) == IF n <= 0 THEN 1 ELSE 2 * Pow2(n - 1)

\* The delays slept so far, in order.
RECURSIVE SleepsOf(_)
SleepsOf(log) ==
    IF log = <<>> THEN <<>>
    ELSE IF Head(log).ev = "sleep" THEN <<Head(log).ms>> \o SleepsOf(Tail(log))
    ELSE SleepsOf(Tail(log))

\* The number of the invocation whose "invoke" event is at position i.
InvocationNumber(c, i) == Cardinality({j \in 1..i : c.log[j].ev = "invoke"})

IsPrefix(s, t) == Len(s) <= Len(t) /\ SubSeq(t, 1, Len(s)) = s

\* The set of the elements of the sequence s.
Range(s) == {s[i] : i \in 1..Len(s)}

(***************************************************************************)
(* C1. In one withModelFallback call: when every primary invocation has    *)
(* failed with a Transient failure and the first fallback invocation       *)
(* succeeds, the fallback task has been invoked exactly once and the call  *)
(* resolves with the value of that invocation; when the primary stage ends *)
(* with a Fatal failure, the fallback task is never invoked and the call   *)
(* rejects with that failure.                                              *)
(***************************************************************************)
C1_PrimaryAllTransient(c) ==
    /\ At(c, {"ok"}, "primary") = {}
    /\ At(c, {"fail"}, "primary") # {}
    /\ Cardinality(At(c, {"fail"}, "primary")) = Cardinality(At(c, {"invoke"}, "primary"))
    /\ \A i \in At(c, {"fail"}, "primary") : IsTransient(c.log[i].err)

C1_FirstFallbackSucceeds(c) ==
    /\ At(c, {"ok", "fail"}, "fallback") # {}
    /\ c.log[Min(At(c, {"ok", "fail"}, "fallback"))].ev = "ok"

C1_PrimaryEndsFatal(c) ==
    /\ At(c, {"ok", "fail"}, "primary") # {}
    /\ LET last == c.log[Max(At(c, {"ok", "fail"}, "primary"))] IN
          last.ev = "fail" /\ IsFatal(last.err)

C1_FallbackOnceOrNever ==
    call.op \in RouterOps =>
        /\ (C1_PrimaryAllTransient(call) /\ C1_FirstFallbackSucceeds(call)) =>
              /\ Cardinality(At(call, {"invoke"}, "fallback")) = 1
              /\ call.pc = "resolved"
              /\ call.result = Value("data", FALLBACK_MODEL,
                                     InvocationNumber(call, Min(At(call, {"invoke"}, "fallback"))))
        /\ C1_PrimaryEndsFatal(call) =>
              /\ At(call, {"invoke"}, "fallback") = {}
              /\ call.pc = "rejected"
              /\ call.err = call.log[Max(At(call, {"ok", "fail"}, "primary"))].err

C1_Witness ==
    /\ call.op = "withModelFallback"
    /\ C1_PrimaryAllTransient(call)
    /\ C1_FirstFallbackSucceeds(call)
    /\ call.pc = "resolved"

(***************************************************************************)
(* C2. In one withModelFallback call: the first fallback invocation comes  *)
(* directly after the failure of the last primary invocation, which        *)
(* happened with no primary retry left and after the one primary delay;    *)
(* at most one invocation is in flight at any time; and no primary         *)
(* invocation follows a fallback invocation.                               *)
(***************************************************************************)
C2_InFlight(c) == Count(c.log, {"invoke"}) - Count(c.log, {"ok", "fail"})

C2_FallbackAfterPrimaryBudget ==
    call.op \in RouterOps =>
        /\ At(call, {"invoke"}, "fallback") # {} =>
              LET first == Min(At(call, {"invoke"}, "fallback")) IN
              /\ first > 1
              /\ call.log[first - 1].ev = "fail"
              /\ call.log[first - 1].stage = "primary"
              /\ call.log[first - 1].left = 0
              /\ Cardinality(At(call, {"invoke"}, "primary")) = PrimaryRetries + 1
              /\ Cardinality({j \in At(call, {"fail"}, "primary") : j < first}) = PrimaryRetries + 1
              /\ Cardinality({j \in At(call, {"sleep"}, "primary") : j < first}) = PrimaryRetries
              /\ \A j \in At(call, {"invoke"}, "primary") : j < first
        /\ C2_InFlight(call) \in {0, 1}
        /\ (C2_InFlight(call) = 1) <=> (call.pc = "inflight")

C2_Witness ==
    /\ call.op \in RouterOps
    /\ call.stage = "fallback"
    /\ call.pc = "inflight"
    /\ Cardinality(At(call, {"invoke"}, "fallback")) = 2

(***************************************************************************)
(* C3. In withRetry(fn, retries, baseDelay) the n-th delay slept is        *)
(* baseDelay * 2^(n-1), and exactly one delay lies between two consecutive *)
(* invocations; with retries = 3 and baseDelay = 2000 the delays are, in   *)
(* order, 2000, 4000 and 8000 ms.                                          *)
(***************************************************************************)
C3_Invokes(c) == At(c, {"invoke"}, "primary")

C3_ExponentialBackoff ==
    call.op = "withRetry" =>
        LET sleeps == SleepsOf(call.log) IN
        /\ \A n \in 1..Len(sleeps) : sleeps[n] = call.baseDelay0 * Pow2(n - 1)
        /\ \A i, j \in C3_Invokes(call) :
              (i < j /\ ~\E k \in C3_Invokes(call) : i < k /\ k < j) =>
                  Cardinality({k \in At(call, {"sleep"}, "primary") : i < k /\ k < j}) = 1
        /\ (call.retries0 = 3 /\ call.baseDelay0 = 2000) =>
              IsPrefix(sleeps, <<2000, 4000, 8000>>)

C3_Witness ==
    /\ call.op = "withRetry"
    /\ call.retries0 = 3
    /\ call.baseDelay0 = 2000
    /\ SleepsOf(call.log) = <<2000, 4000, 8000>>
    /\ Invocations(call) = 4

(***************************************************************************)
(* C4. In withRetry, an invocation that fails with a failure classified    *)
(* Fatal, or with any failure while the remaining retry count is 0 or      *)
(* less, is the last event of the call: no delay and no invocation follow, *)
(* and the call rejects with the very failure the task threw.              *)
(***************************************************************************)
C4_FatalOrExhaustedPropagates ==
    call.op = "withRetry" =>
        \A i \in At(call, {"fail"}, "primary") :
            (IsFatal(call.log[i].err) \/ call.log[i].left <= 0) =>
                /\ i = Len(call.log)
                /\ call.pc = "rejected"
                /\ call.err = call.log[i].err
                /\ call.err.id = Invocations(call)

C4_Witness ==
    /\ call.op = "withRetry"
    /\ call.pc = "rejected"
    /\ Invocations(call) = 2
    /\ call.retries > 0
    /\ IsFatal(call.err)
    /\ call.log[Len(call.log)].ev = "fail"

(***************************************************************************)
(* C5. In withRetry(fn, retries, baseDelay) with retries >= 0: a           *)
(* successful invocation ends the call with its value; a Transient failure *)
(* with retries remaining is followed by one delay, then by one invocation *)
(* with the remaining count one lower; fn is invoked at least once and at  *)
(* most retries + 1 times; and when the call has ended, every outcome but  *)
(* the last was a Transient failure and the last is a success, a failure   *)
(* that is not Transient, or the outcome of invocation retries + 1.        *)
(***************************************************************************)
C5_Outcomes(c) == At(c, {"ok", "fail"}, "primary")

C5_AttemptCount ==
    (call.op = "withRetry" /\ call.retries0 >= 0) =>
        LET log == call.log IN
        /\ \A i \in At(call, {"ok"}, "primary") :
              /\ i = Len(log)
              /\ call.pc = "resolved"
              /\ call.result = Value("data", log[i].model, Invocations(call))
        /\ \A i \in At(call, {"fail"}, "primary") :
              (IsTransient(log[i].err) /\ log[i].left > 0) =>
                  /\ Len(log) > i
                  /\ log[i + 1].ev = "sleep"
                  /\ Len(log) > i + 1 =>
                        /\ log[i + 2].ev = "invoke"
                        /\ log[i + 2].left = log[i].left - 1
        /\ Invocations(call) >= 1
        /\ Invocations(call) <= call.retries0 + 1
        /\ Terminal(call) =>
              LET last == Max(C5_Outcomes(call)) IN
              /\ Cardinality(C5_Outcomes(call)) = Invocations(call)
              /\ \A i \in C5_Outcomes(call) \ {last} :
                    log[i].ev = "fail" /\ IsTransient(log[i].err)
              /\ \/ log[last].ev = "ok"
                 \/ ~IsTransient(log[last].err)
                 \/ Invocations(call) = call.retries0 + 1
              /\ Invocations(call) =
                    1 + Cardinality({i \in At(call, {"fail"}, "primary") :
                                        IsTransient(log[i].err) /\ i # last})

C5_Witness ==
    /\ call.op = "withRetry"
    /\ call.retries0 = 2
    /\ call.pc = "rejected"
    /\ Invocations(call) = 3
    /\ IsTransient(call.err)

(***************************************************************************)
(* C6. For the facade operations that run their closure under withRetry    *)
(* with the default policy: a Transient failure of the remote call with    *)
(* retries remaining is not the end of the call, and when the call rejects *)
(* after a Transient remote failure all 3 retries have been used.          *)
(***************************************************************************)
C6_Ops ==
    {"generateTopicIdeas", "generateTopicIdeasForWebsite", "analyzeCompetitors",
     "findEeatSources", "generateOutline", "regenerateTitle", "generateSpeech",
     "generateSocialPosts"}

C6_TransientAbsorbed ==
    call.op \in C6_Ops =>
        \A i \in At(call, {"fail"}, "primary") :
            IsTransient(call.log[i].remote) =>
                /\ call.log[i].left > 0 => ~(call.pc = "rejected" /\ i = Len(call.log))
                /\ (call.pc = "rejected" /\ i = Len(call.log)) =>
                      Invocations(call) = DefaultRetries + 1

(***************************************************************************)
(* C7. For every facade operation: a Fatal failure of the remote call ends *)
(* the call at once with a rejection, with no delay and no further         *)
(* invocation (of the same or of another model); when it is the first      *)
(* remote call that fails, the remote service was called exactly once; and *)
(* for generateTopicIdeas the rejection's message begins "Failed to        *)
(* generate topic ideas".                                                  *)
(***************************************************************************)
C7_FatalNeverRetried ==
    call.op \in FacadeOps =>
        \A i \in 1..Len(call.log) :
            (call.log[i].ev \in {"ok", "fail"} /\ IsFatal(call.log[i].remote)) =>
                /\ i = Len(call.log)
                /\ call.pc = "rejected"
                /\ i = 2 => Invocations(call) = 1
                /\ call.op = "generateTopicIdeas" =>
                      /\ call.err.message.t = "string"
                      /\ StartsWith(call.err.message.s, "Failed to generate topic ideas")

(***************************************************************************)
(* C8. Once the caller has aborted a withRetry call during its retry       *)
(* delay, the task is not invoked again and the call leaves the delay by   *)
(* rejecting with a cancellation failure, which is neither a Transient nor *)
(* a Fatal upstream failure.                                               *)
(***************************************************************************)
C8_AbortedInDelay(c) ==
    c.pc = "sleeping" /\ c.abortedAt = Len(c.log)

C8_AbortedDelayRejects ==
    [][C8_AbortedInDelay(call) =>
          /\ Invocations(call') = Invocations(call)
          /\ call'.pc = "rejected"
          /\ call'.err.kind = "cancelled"]_vars

(***************************************************************************)
(* C9. isQuotaError answers truthy for every failure object in which the   *)
(* status field or the code field holds 429, 500, 503, RESOURCE_EXHAUSTED  *)
(* or PERMISSION_DENIED, whatever the other field and the message hold.    *)
(***************************************************************************)
C9_Listed == {Num(429), Num(500), Num(503), Str("RESOURCE_EXHAUSTED"), Str("PERMISSION_DENIED")}

C9_EitherFieldTransient ==
    (verdict # "none" /\ probe.kind = "object"
        /\ (probe.status \in C9_Listed \/ probe.code \in C9_Listed))
    => verdict = "truthy"

(***************************************************************************)
(* What the classifier does guarantee: isQuotaError answers truthy for     *)
(* every failure object whose status field holds one of the listed         *)
(* statuses, whatever code and message hold, and for every failure object  *)
(* whose status field is absent or falsy (undefined, null, 0, "") and      *)
(* whose code field holds one of them, whatever the message holds.         *)
(***************************************************************************)
C9_Falsy(v) == v \in {Undef, Null, Num(0), Str("")}

C9_StatusThenCodeTransient ==
    (verdict # "none" /\ probe.kind = "object"
        /\ (probe.status \in C9_Listed \/ (C9_Falsy(probe.status) /\ probe.code \in C9_Listed)))
    => verdict = "truthy"

C9_Witness ==
    /\ verdict = "truthy"
    /\ probe.kind = "object"
    /\ probe.status = Num(0)
    /\ probe.code = Num(503)
    /\ probe.message = Num(429)

(***************************************************************************)
(* C10. isQuotaError answers falsy for every failure object that matches   *)
(* none of the listed statuses (neither its status field nor its code      *)
(* field holds one) and whose message is absent or a string containing     *)
(* none of the eight substrings; failures with status 400, 401 or 403 are  *)
(* among them.                                                             *)
(***************************************************************************)
C10_PlainMessage(m) ==
    \/ m = Undef
    \/ /\ m.t = "string"
       /\ \A p \in {"429", "quota", "RESOURCE_EXHAUSTED", "Too Many Requests",
                    "Rpc failed", "xhr error", "500", "overloaded"} : ~Includes(m.s, p)

C10_FatalOtherwise ==
    (verdict # "none" /\ probe.kind = "object" /\ C10_PlainMessage(probe.message)
        /\ probe.status \notin C9_Listed /\ probe.code \notin C9_Listed)
    => verdict = "falsy"

C10_Witness ==
    /\ verdict = "falsy"
    /\ probe.kind = "object"
    /\ probe.status = Num(403)
    /\ probe.code = Num(400)
    /\ probe.message = Str("QuotaBad Request")

(***************************************************************************)
(* C11. isQuotaError never throws, whatever the failure value is (null or  *)
(* undefined, a value that is not an object, an object with neither a      *)
(* status nor a message, an object whose message is not a string), and it  *)
(* answers falsy for every such value that matches no listed status.       *)
(***************************************************************************)
C11_Unclassifiable ==
    \/ probe.kind \in {"null", "undefined", "primitive"}
    \/ /\ probe.kind = "object"
       /\ probe.status \notin C9_Listed
       /\ probe.code \notin C9_Listed
       /\ (probe.message = Undef \/ probe.message.t # "string")

C11_NeverThrows ==
    verdict # "none" =>
        /\ verdict # "throws"
        /\ C11_Unclassifiable => verdict = "falsy"

(***************************************************************************)
(* C12. The classification depends on the status, code and message of the  *)
(* failure only. At every point of a withRetry or withModelFallback call   *)
(* where the classifier is consulted (a failed invocation with retries     *)
(* left, the end of the primary stage of withModelFallback), the call goes *)
(* on - sleeps, or enters the fallback stage - exactly when the failure is *)
(* Transient, so two failures with equal status, code and message are      *)
(* treated alike whatever the remaining retries, the delay and the stage.  *)
(***************************************************************************)
C12_Ops == {"withRetry", "withModelFallback"} \cup FallbackFacadeOps

C12_Consulted(c, i) ==
    /\ c.log[i].ev = "fail"
    /\ \/ c.log[i].left > 0
       \/ c.op \in RouterOps /\ c.log[i].stage = "primary"

C12_GoesOn(c, i) == i < Len(c.log)

C12_SameFields(e, f) ==
    /\ e.kind = f.kind
    /\ e.status = f.status
    /\ e.code = f.code
    /\ e.message = f.message

C12_ClassificationIsPure ==
    call.op \in C12_Ops =>
        \A i \in 1..Len(call.log) : C12_Consulted(call, i) =>
            /\ C12_GoesOn(call, i) <=> IsTransient(call.log[i].err)
            /\ \A j \in 1..Len(call.log) :
                  (C12_Consulted(call, j)
                      /\ C12_SameFields(call.log[i].err, call.log[j].err))
                  => (C12_GoesOn(call, i) <=> C12_GoesOn(call, j))

\* The same failure met with three retries left in the primary position,
\* then at the end of the primary stage, then in the fallback stage.
C12_Witness ==
    /\ call.op = "withModelFallback"
    /\ \E i \in At(call, {"fail"}, "primary"), j \in At(call, {"fail"}, "fallback") :
          /\ call.log[i].left = 0
          /\ call.log[j].left = 2
          /\ C12_SameFields(call.log[i].err, call.log[j].err)
          /\ call.log[i].err.id # call.log[j].err.id
          /\ C12_GoesOn(call, i) /\ C12_GoesOn(call, j)

(***************************************************************************)
(* C13. No facade operation swallows a failure, selectRelevantInternalLinks*)
(* included: a facade call resolves only when its last remote call         *)
(* succeeded and its result could be parsed; it never resolves with a      *)
(* substitute value made up after a failure.                               *)
(***************************************************************************)
C13_NoFailureSwallowed ==
    (call.op \in FacadeOps /\ call.pc = "resolved") =>
        /\ call.log[Len(call.log)].ev = "ok"
        /\ call.log[Len(call.log)].remote = NoFailure
        /\ call.result.kind # "emptyList"

(***************************************************************************)
(* The payload extractor extractJson(text), on texts put together from a   *)
(* few tokens: the fence marker, language tags, white space, the two kinds *)
(* of brackets and a digit. Indexes are those of the source (from 0). The   *)
(* character ~ stands for the backquote, which a TLA+ string cannot hold.  *)
(***************************************************************************)
\* A text is at most MaxTokens tokens of Tokens put end to end.
MaxTokens == 4

Tokens == {"~~~", "json", "js", "\n", " ", "{", "}", "[", "]", "1"}

RECURSIVE TokenTexts(_)
TokenTexts(n) ==
    IF n = 0 THEN {""}
    ELSE LET prev == TokenTexts(n - 1) IN prev \cup {t \o w : t \in prev, w \in Tokens}

\* Longer texts of the kinds the remote model's answers have.
SampleTexts ==
    {"Here:\n~~~json\n[1,2,3]\n~~~\n",
     "prefix {\"a\":1} suffix",
     "~~~json\n{\"a\":1}\n~~~\nthen\n~~~json\n[2]\n~~~",
     "~~~javascript\n[1,2,3]\n~~~",
     "] and then [1, 2",
     " \n no payload here \n"}

ExtractTexts == TokenTexts(MaxTokens) \cup SampleTexts

\* text[i]
CharAt(s, i) == SubSeq(s, i + 1, i + 1)

\* The text p stands in s at index i.
StandsAt(s, i, p) == i >= 0 /\ i + Len(p) <= Len(s) /\ SubSeq(s, i + 1, i + Len(p)) = p

\* White space of \s and of String.prototype.trim.
IsSpace(ch) == ch \in {" ", "\n", "\t", "\r"}

RECURSIVE SpaceRun(_, _)
\* The number of white space characters of s in a row from index i on.
SpaceRun(s, i) ==
    IF i < Len(s) /\ IsSpace(CharAt(s, i)) THEN 1 + SpaceRun(s, i + 1) ELSE 0

RECURSIVE SpaceRunBack(_, _)
\* The number of white space characters of s in a row that end before index i.
SpaceRunBack(s, i) ==
    IF i > 0 /\ IsSpace(CharAt(s, i - 1)) THEN 1 + SpaceRunBack(s, i - 1) ELSE 0

\* s.trim()
Trim(s) ==
    LET t == SubSeq(s, SpaceRun(s, 0) + 1, Len(s)) IN
    SubSeq(t, 1, Len(t) - SpaceRunBack(t, Len(t)))

\* s.substring(start, end): both indexes are clamped to 0..length and are
\* swapped when start is greater than end.
Clamp(k, n) == IF k < 0 THEN 0 ELSE IF k > n THEN n ELSE k

substring(s, start, end) ==
    LET a == Clamp(start, Len(s))
        b == Clamp(end, Len(s))
    IN  IF a > b THEN SubSeq(s, b + 1, a) ELSE SubSeq(s, a + 1, b)

\* text.search(/[{\[]/): the index of the first character of s that is in
\* chars, -1 when there is none.
search(s, chars) ==
    LET at == {i \in 0..(Len(s) - 1) : CharAt(s, i) \in chars} IN
    IF at = {} THEN -1 ELSE Min(at)

\* text.lastIndexOf(ch)
lastIndexOf(s, ch) ==
    LET at == {i \in 0..(Len(s) - 1) : CharAt(s, i) = ch} IN
    IF at = {} THEN -1 ELSE Max(at)

\* text.match(/```(?:json)?\s*([\s\S]*?)\s*```/), in the order in which the
\* regular expression is tried: the leftmost start; "json" taken before it
\* is given up; the first \s* as long as possible; the group as short as
\* possible; then \s* and the closing marker.
FENCE == "~~~"

NoMatch == [found |-> FALSE, from |-> 0, to |-> 0]

\* \s*``` matches from index e on.
ClosesAt(s, e) == \E w \in 0..SpaceRun(s, e) : StandsAt(s, e + w, FENCE)

\* ([\s\S]*?)\s*``` from index b on: the end of the shortest group, or -1.
LazyEnd(s, b) ==
    LET ends == {e \in b..Len(s) : ClosesAt(s, e)} IN
    IF ends = {} THEN -1 ELSE Min(ends)

\* \s*([\s\S]*?)\s*``` from index q on.
GroupAfter(s, q) ==
    LET ks == {k \in 0..SpaceRun(s, q) : LazyEnd(s, q + k) # -1} IN
    IF q > Len(s) \/ ks = {} THEN NoMatch
    ELSE [found |-> TRUE, from |-> q + Max(ks), to |-> LazyEnd(s, q + Max(ks))]

\* The whole expression from index p on.
MatchAt(s, p) ==
    IF ~StandsAt(s, p, FENCE) THEN NoMatch
    ELSE IF StandsAt(s, p + 3, "json") /\ GroupAfter(s, p + 7).found
         THEN GroupAfter(s, p + 7)
         ELSE GroupAfter(s, p + 3)

\* match: null, or the group match[1] of the leftmost match.
FenceMatch(s) ==
    LET starts == {p \in 0..(Len(s) - 1) : MatchAt(s, p).found} IN
    IF starts = {} THEN [found |-> FALSE, group |-> ""]
    ELSE LET m == MatchAt(s, Min(starts)) IN
         [found |-> TRUE, group |-> SubSeq(s, m.from + 1, m.to)]

\* text[firstOpen] === '{' ? '}' : ']'
Closer(ch) == IF ch = "{" THEN "}" ELSE "]"

\* if (lastIndex !== -1) return text.substring(firstOpen, lastIndex + 1);
BracketSpanUnguarded(s, firstOpen, lastIndex) == substring(s, firstOpen, lastIndex + 1)

BracketSpan(s, firstOpen, lastIndex) ==
    IF lastIndex # -1 THEN substring(s, firstOpen, lastIndex + 1) ELSE Trim(s)

extractJson(text) ==
    LET match == FenceMatch(text)
        firstOpen == search(text, {"{", "["})
    IN  IF match.found THEN Trim(match.group)
        ELSE IF firstOpen # -1
             THEN BracketSpan(text, firstOpen, lastIndexOf(text, Closer(CharAt(text, firstOpen))))
             ELSE Trim(text)

\* extractJson(text) is called and returns.
Extract ==
    /\ extraction.pc = "idle"
    /\ extraction' = [extraction EXCEPT !.pc = "returned", !.result = extractJson(extraction.text)]
    /\ UNCHANGED <<call, probe, verdict, webhook, summary, pair, strategy, reply, wizard, audio>>

InitExtract ==
    /\ call = IdleCall
    /\ probe = NoFailure
    /\ verdict = "none"
    /\ extraction \in {[IdleExtraction EXCEPT !.text = t] : t \in ExtractTexts}
    /\ webhook = IdleWebhook
    /\ summary = IdleSummary
    /\ pair = IdlePair
    /\ strategy = IdleStrategy
    /\ reply = IdleReply
    /\ wizard = IdleWizard
    /\ audio = IdleAudio

NextExtract == Extract

SpecExtract == InitExtract /\ [][NextExtract]_vars

(***************************************************************************)
(* Vocabulary of the extractor's properties, said without the regular      *)
(* expression: the text holds a fenced block when a marker is followed,    *)
(* after its three characters, by another marker; the block opens at the   *)
(* first marker of the text.                                               *)
(***************************************************************************)
\* extractJson(t) has returned.
Extracted(t) == extraction.pc = "returned" /\ extraction.text = t

FenceIndexes(t) == {p \in 0..(Len(t) - 1) : StandsAt(t, p, FENCE)}

HasFencedBlock(t) == \E p, c \in FenceIndexes(t) : c >= p + 3

IsTagLetter(ch) ==
    ch \in {"a", "b", "c", "d", "e", "f", "g", "h", "i", "j", "k", "l", "m",
            "n", "o", "p", "q", "r", "s", "t", "u", "v", "w", "x", "y", "z"}

RECURSIVE TagRun(_, _)
\* The number of letters of t in a row from index i on.
TagRun(t, i) ==
    IF i < Len(t) /\ IsTagLetter(CharAt(t, i)) THEN 1 + TagRun(t, i + 1) ELSE 0

\* The text between index `from` and the first marker at or after it.
InteriorFrom(t, from) ==
    SubSeq(t, from + 1, Min({c \in FenceIndexes(t) : c >= from}))

(***************************************************************************)
(* C14. For every text with an opening marker, optionally followed by a    *)
(* language tag (any tag, not only "json"), and a later closing marker,    *)
(* extractJson returns the trimmed interior of the first block, the tag    *)
(* excluded, whatever follows the block.                                   *)
(***************************************************************************)
C14_AnyTagExcluded ==
    LET t == extraction.text IN
    (Extracted(t) /\ HasFencedBlock(t)) =>
        LET open == Min(FenceIndexes(t)) IN
        extraction.result = Trim(InteriorFrom(t, open + 3 + TagRun(t, open + 3)))

(***************************************************************************)
(* What extractJson does guarantee: the same with "json" as the only tag   *)
(* that is excluded; the example of the claim is among the texts.          *)
(***************************************************************************)
C14_JsonTagExcluded ==
    LET t == extraction.text IN
    (Extracted(t) /\ HasFencedBlock(t)) =>
        LET open == Min(FenceIndexes(t))
            tag == IF StandsAt(t, open + 3, "json") THEN 4 ELSE 0
        IN  extraction.result = Trim(InteriorFrom(t, open + 3 + tag))

C14_Example ==
    Extracted("Here:\n~~~json\n[1,2,3]\n~~~\n") => extraction.result = "[1,2,3]"

(***************************************************************************)
(* C15. For every text without a fenced block that contains "{" or "[",    *)
(* with i the index of the first such character and j the index of the     *)
(* last occurrence of the matching closing character, extractJson returns  *)
(* the characters from i to j, both included.                              *)
(***************************************************************************)
C15_FirstOpen(t) == search(t, {"{", "["})

C15_LastClose(t) == lastIndexOf(t, Closer(CharAt(t, C15_FirstOpen(t))))

C15_BracketCase(t) ==
    /\ Extracted(t)
    /\ ~HasFencedBlock(t)
    /\ C15_FirstOpen(t) # -1
    /\ C15_LastClose(t) # -1

C15_FromFirstOpenToLastClose ==
    LET t == extraction.text IN
    C15_BracketCase(t) =>
        extraction.result = SubSeq(t, C15_FirstOpen(t) + 1, C15_LastClose(t) + 1)

(***************************************************************************)
(* What extractJson does guarantee: the same when the last closing         *)
(* character stands after the first opening one.                           *)
(***************************************************************************)
C15_CloseAfterOpen ==
    LET t == extraction.text IN
    (C15_BracketCase(t) /\ C15_LastClose(t) > C15_FirstOpen(t)) =>
        extraction.result = SubSeq(t, C15_FirstOpen(t) + 1, C15_LastClose(t) + 1)

C15_Example ==
    Extracted("prefix {\"a\":1} suffix") => extraction.result = "{\"a\":1}"

(***************************************************************************)
(* C16. extractJson returns for every text (the empty one, an unclosed     *)
(* fence, an opening bracket with no matching closing character, a closing *)
(* bracket only); when the text holds neither a fenced block nor an        *)
(* opening bracket with its closing character, the result is the whole     *)
(* text, trimmed.                                                          *)
(***************************************************************************)
C16_NoPayload(t) ==
    /\ ~HasFencedBlock(t)
    /\ \/ search(t, {"{", "["}) = -1
       \/ lastIndexOf(t, Closer(CharAt(t, search(t, {"{", "["})))) = -1

C16_TrimmedWholeText ==
    LET t == extraction.text IN
    (Extracted(t) /\ C16_NoPayload(t)) => extraction.result = Trim(t)

\* An unclosed fence around an opening bracket with no closing one.
C16_Witness ==
    /\ Extracted("~~~json\n[")
    /\ extraction.result = "~~~json\n["
    /\ C16_NoPayload(extraction.text)

(***************************************************************************)
(* callWebhookTool(func, ...): the parsed response body and the three      *)
(* normalisers. A step that raises a TypeError in the source gives a       *)
(* result with ok = FALSE, which the enclosing catch turns into the        *)
(* rejection of the call.                                                  *)
(***************************************************************************)
\* Array.isArray(v)
IsArray(v) == v.t = "array"

\* v.k for a value that has properties: undefined unless v is an object
\* with the field k (strings, numbers and arrays have no such field).
Get(v, k) ==
    IF v.t = "object" /\ k \in DOMAIN v.fields THEN v.fields[k] ELSE Undef

\* Reading a property of null or undefined raises a TypeError.
HasNoProperties(v) == v.t \in {"undefined", "null"}

\* v?.k
OptGet(v, k) == IF HasNoProperties(v) THEN Undef ELSE Get(v, k)

\* typeof v === 'string'
IsString(v) == v.t = "string"

Done(v) == [ok |-> TRUE, value |-> v, error |-> ""]

TypeError(msg) == [ok |-> FALSE, value |-> Undef, error |-> msg]

\* s.split(ch) for a one-character separator.
RECURSIVE Split(_, _)
Split(s, ch) ==
    LET i == search(s, {ch}) IN
    IF i = -1 THEN <<s>>
    ELSE <<SubSeq(s, 1, i)>> \o Split(SubSeq(s, i + 2, Len(s)), ch)

\* words.join(sep)
RECURSIVE Join(_, _)
Join(words, sep) ==
    IF words = <<>> THEN ""
    ELSE IF Len(words) = 1 THEN words[1]
    ELSE words[1] \o sep \o Join(Tail(words), sep)

\* s.replace(/[-_]/g, ' ')
RECURSIVE SpaceOut(_)
SpaceOut(s) ==
    IF s = "" THEN ""
    ELSE (IF CharAt(s, 0) \in {"-", "_"} THEN " " ELSE CharAt(s, 0))
         \o SpaceOut(SubSeq(s, 2, Len(s)))

\* s.replace(/\.[^/.]+$/, ""): the last dot and what follows it go, when at
\* least one character follows and none of them is a slash.
StripExtension(s) ==
    LET d == lastIndexOf(s, ".") IN
    IF d # -1 /\ d < Len(s) - 1 /\ \A i \in (d + 1)..(Len(s) - 1) : CharAt(s, i) # "/"
    THEN SubSeq(s, 1, d)
    ELSE s

\* ch.toUpperCase() for one character.
ToUpperCase(ch) ==
    LET i == search("abcdefghijklmnopqrstuvwxyz", {ch}) IN
    IF i = -1 THEN ch ELSE CharAt("ABCDEFGHIJKLMNOPQRSTUVWXYZ", i)

\* word.charAt(0).toUpperCase() + word.slice(1)
Capitalise(word) ==
    IF word = "" THEN "" ELSE ToUpperCase(CharAt(word, 0)) \o SubSeq(word, 2, Len(word))

\* url.split('/').filter(Boolean).pop() || ''
LastSegment(url) ==
    LET parts == SelectSeq(Split(url, "/"), LAMBDA x : x # "") IN
    IF parts = <<>> THEN "" ELSE parts[Len(parts)]

\* The title made from the last path segment of url.
GeneratedTitle(url) ==
    LET words == Split(StripExtension(SpaceOut(LastSegment(url))), " ") IN
    Join([i \in 1..Len(words) |-> Capitalise(words[i])], " ")

\* let title = item.title; if (!title || typeof title !== 'string') { ... }
UrlMapTitle(item, url) ==
    LET title == Get(item, "title") IN
    IF ~Truthy(title) \/ ~IsString(title)
    THEN IF HasNoProperties(url)
         THEN TypeError("Cannot read properties of undefined (reading 'split')")
         ELSE IF ~IsString(url) THEN TypeError("url.split is not a function")
         ELSE Done(Or(Str(GeneratedTitle(url.s)), url))
    ELSE Done(title)

\* The callback of links.map in the url_map branch; null is a skipped item.
UrlMapItem(item) ==
    IF ~Truthy(item) \/ (~IsString(Get(item, "url")) /\ ~IsString(Get(item, "loc")))
    THEN Done(Null)
    ELSE LET url == Or(Get(item, "url"), Get(item, "loc"))
             title == UrlMapTitle(item, url)
         IN  IF title.ok THEN Done(Obj([url |-> url, title |-> title.value])) ELSE title

\* The callback of keywords.map in the page_ranked_keywords branch.
RankedKeywordItemVolumeAsIs(kw) ==
    IF HasNoProperties(kw)
    THEN TypeError("Cannot read properties of null (reading 'Keyword')")
    ELSE Done(Obj([keyword |-> Or(Or(Get(kw, "Keyword"), Get(kw, "keyword")), Str("")),
                   competition |-> Or(Get(kw, "competition_score"), Num(0)),
                   competition_level |-> Or(Get(kw, "competition_level"), Str("UNKNOWN")),
                   cpc |-> Or(Get(kw, "cpc"), Num(0)),
                   search_volume |-> Get(kw, "search_volume"),
                   difficulty |-> Or(Get(kw, "keyword_difficulty"), Num(0)),
                   intent |-> Or(Get(kw, "intent"), Str("unknown"))]))

RankedKeywordItem(kw) ==
    IF HasNoProperties(kw)
    THEN TypeError("Cannot read properties of null (reading 'Keyword')")
    ELSE Done(Obj([keyword |-> Or(Or(Get(kw, "Keyword"), Get(kw, "keyword")), Str("")),
                   competition |-> Or(Get(kw, "competition_score"), Num(0)),
                   competition_level |-> Or(Get(kw, "competition_level"), Str("UNKNOWN")),
                   cpc |-> Or(Get(kw, "cpc"), Num(0)),
                   search_volume |-> Or(Get(kw, "search_volume"), Num(0)),
                   difficulty |-> Or(Get(kw, "keyword_difficulty"), Num(0)),
                   intent |-> Or(Get(kw, "intent"), Str("unknown"))]))

\* The two callbacks of the suggested_keywords branch.
RelatedKeywordItem(kw) ==
    IF HasNoProperties(kw)
    THEN TypeError("Cannot read properties of null (reading 'keyword')")
    ELSE Done(Get(kw, "keyword"))

SuggestedKeywordItem(kw) ==
    IF HasNoProperties(kw)
    THEN TypeError("Cannot read properties of null (reading 'Keyword')")
    ELSE Done(Or(Or(Get(kw, "Keyword"), Get(kw, "keyword")), kw))

\* list.map(callback), given the results of the callback for the items in
\* order: the first callback that raises ends the map.
Mapped(out) ==
    LET failed == {i \in 1..Len(out) : ~out[i].ok} IN
    IF failed # {} THEN out[Min(failed)]
    ELSE Done(Arr([i \in 1..Len(out) |-> out[i].value]))

\* .filter((item) => item !== null) and .filter(Boolean) on a mapped list.
FilterNotNull(r) ==
    IF r.ok THEN Done(Arr(SelectSeq(r.value.items, LAMBDA x : x # Null))) ELSE r

FilterBoolean(r) ==
    IF r.ok THEN Done(Arr(SelectSeq(r.value.items, Truthy))) ELSE r

\* const data = Array.isArray(responseData) && responseData.length > 0
\*     ? responseData[0] : responseData;
FirstElement(responseData) ==
    IF IsArray(responseData) /\ Len(responseData.items) > 0
    THEN responseData.items[1]
    ELSE responseData

\* data?.f || (Array.isArray(data) ? data : [])
NestedOrDirect(data, f) == Or(OptGet(data, f), IF IsArray(data) THEN data ELSE Arr(<<>>))

\* The three branches, from the parsed body to what the branch returns.
NormaliseUrlMap(responseData) ==
    LET links == OptGet(FirstElement(responseData), "internal_links") IN
    IF IsArray(links)
    THEN FilterNotNull(Mapped([i \in 1..Len(links.items) |-> UrlMapItem(links.items[i])]))
    ELSE Done(Arr(<<>>))

NormaliseRankedKeywords(responseData) ==
    LET keywords == NestedOrDirect(FirstElement(responseData), "ranked_keywords") IN
    IF IsArray(keywords)
    THEN Mapped([i \in 1..Len(keywords.items) |-> RankedKeywordItem(keywords.items[i])])
    ELSE Done(Arr(<<>>))

NormaliseSuggestedKeywords(responseData) ==
    LET data == FirstElement(responseData)
        related == Get(data, "related_keyword")
        keywords == NestedOrDirect(data, "suggested_keywords")
    IN  IF Truthy(data) /\ IsArray(related)
        THEN FilterBoolean(Mapped([i \in 1..Len(related.items) |->
                                      RelatedKeywordItem(related.items[i])]))
        ELSE IF IsArray(keywords)
        THEN FilterBoolean(Mapped([i \in 1..Len(keywords.items) |->
                                      SuggestedKeywordItem(keywords.items[i])]))
        ELSE Done(Arr(<<>>))

\* Everything after JSON.parse inside the try block.
Normalise(func, responseData) ==
    CASE func = "url_map" -> NormaliseUrlMap(responseData)
      [] func = "page_ranked_keywords" -> NormaliseRankedKeywords(responseData)
      [] func = "suggested_keywords" -> NormaliseSuggestedKeywords(responseData)
      [] OTHER -> Done(responseData)

(***************************************************************************)
(* What the webhook can answer. The items of a collection are the shapes   *)
(* the upstream is known to send and their neighbours: records with the    *)
(* upstream or the canonical field names, with fields missing or falsy,    *)
(* and items that are no records at all.                                   *)
(***************************************************************************)
\* A collection holds at most MaxItems items.
MaxItems == 2

WebhookFunctions == {"url_map", "url_scrape", "page_ranked_keywords", "suggested_keywords"}

UrlItems ==
    {Null, Str("https://a.com/x"),
     Obj([url |-> Str("https://a.com/blog/my-first_post.html"), title |-> Str("My Post")]),
     Obj([url |-> Str("https://a.com/blog/my-first_post.html")]),
     Obj([loc |-> Str("https://a.com/")]),
     Obj([url |-> Str("https://a.com/p"), title |-> Num(7)]),
     Obj([url |-> Str(""), loc |-> Str("/")]),
     Obj([url |-> Str(""), title |-> Str("T")]),
     Obj([url |-> Str("")]),
     Obj([url |-> Num(5), loc |-> Str("https://b.org/p"), title |-> Str("P")]),
     Obj([url |-> Num(5), loc |-> Str("https://b.org/p")]),
     Obj([title |-> Str("No address")])}

KeywordItems ==
    {Null, Str("seo"), Obj(<<>>),
     Obj([keyword |-> Str("seo")]),
     Obj([Keyword |-> Str("seo tools"), competition_score |-> Num(40),
          competition_level |-> Str("HIGH"), cpc |-> Num(2), search_volume |-> Num(900),
          keyword_difficulty |-> Num(55), intent |-> Str("commercial")]),
     Obj([keyword |-> Str("seo tools"), competition |-> Num(40),
          competition_level |-> Str("HIGH"), cpc |-> Num(2), search_volume |-> Num(900),
          difficulty |-> Num(55), intent |-> Str("commercial")]),
     Obj([Keyword |-> Str(""), keyword |-> Str("kw"), competition_score |-> Num(0),
          competition_level |-> Str(""), cpc |-> Null, search_volume |-> Num(0),
          keyword_difficulty |-> Num(0), intent |-> Str("")])}

SuggestedItems ==
    {Null, Str("c"), Str(""), Obj(<<>>),
     Obj([keyword |-> Str("a")]),
     Obj([Keyword |-> Str("B"), keyword |-> Str("b")])}

ItemsOf(func) ==
    CASE func = "url_map" -> UrlItems
      [] func = "page_ranked_keywords" -> KeywordItems
      [] func = "suggested_keywords" -> SuggestedItems
      [] OTHER -> {Str("page text")}

\* The fields under which the collection of a function is looked for.
WrappersOf(func) ==
    CASE func = "url_map" -> {"internal_links"}
      [] func = "page_ranked_keywords" -> {"ranked_keywords"}
      [] func = "suggested_keywords" -> {"related_keyword", "suggested_keywords"}
      [] OTHER -> {"content"}

RECURSIVE ListsOf(_, _)
\* The sequences of at most n items of S.
ListsOf(S, n) ==
    IF n = 0 THEN {<<>>}
    ELSE LET prev == ListsOf(S, n - 1) IN prev \cup {Append(l, x) : l \in prev, x \in S}

\* The object with the one field w holding v.
Wrapped(w, v) == Obj([k \in {w} |-> v])

\* The values JSON.parse can give for the body of an answer to func.
BodiesOf(func) ==
    LET lists == {Arr(l) : l \in ListsOf(ItemsOf(func), MaxItems)}
        wrapped == {Wrapped(w, v) : w \in WrappersOf(func),
                                    v \in lists \cup {Null, Num(3), Str("none"), Obj(<<>>)}}
    IN  lists \cup wrapped \cup {Arr(<<v>>) : v \in lists \cup wrapped}
              \cup {Null, Num(3), Str("ok"), Obj(<<>>)}

\* response.status of the answers that are not ok, with its decimal form.
ErrorStatuses == {404, 500}

StatusText(status) ==
    IF status = 404 THEN "404" ELSE IF status = 429 THEN "429" ELSE "500"

\* await response.text() of an answer that is not ok.
ErrorTexts == {"", "Internal Server Error", "{\"message\":\"Workflow not found\"}"}

\* The answers: fetch rejects; the response is not ok; it is ok with an
\* empty body, with a body JSON.parse rejects, or with a JSON body.
AnswersTo(func) ==
    {[kind |-> "network", status |-> 0, text |-> "", data |-> Undef]}
    \cup {[kind |-> "notok", status |-> st, text |-> tx, data |-> Undef] :
             st \in ErrorStatuses, tx \in ErrorTexts}
    \cup {[kind |-> "empty", status |-> 200, text |-> "", data |-> Undef]}
    \cup {[kind |-> "unparseable", status |-> 200, text |-> "<html>", data |-> Undef]}
    \cup {[kind |-> "json", status |-> 200, text |-> "json", data |-> d] : d \in BodiesOf(func)}

Resolved(v) == [state |-> "resolved", value |-> v, message |-> ""]

Rejected(msg) == [state |-> "rejected", value |-> Undef, message |-> msg]

\* catch (error) { throw new Error(`Failed to get data from custom tool:
\* ${func}. ${error.message}`); }
RelabelledLabelOnly(func, message) ==
    Rejected("Failed to get data from custom tool: " \o func \o ".")

Relabelled(func, message) ==
    Rejected("Failed to get data from custom tool: " \o func \o ". " \o message)

\* if (!responseText) { ... }
EmptyBodyResult(func) ==
    IF func \in {"url_map", "page_ranked_keywords"} THEN Arr(<<>>) ELSE Null

\* JSON.parse(errorText) of an answer that is not ok: the parsed value, or
\* undefined when JSON.parse throws.
ParseErrorBody(text) ==
    IF text = "{\"message\":\"Workflow not found\"}"
    THEN Obj([message |-> Str("Workflow not found")])
    ELSE Undef

\* The inner try of the branch if (!response.ok): the message of the Error
\* it throws, with errorData.message when the body is JSON and has one.
NotOkThrownInTry(a) ==
    LET errorData == ParseErrorBody(a.text) IN
    IF errorData = Undef THEN "Unexpected token in JSON"
    ELSE IF Truthy(Get(errorData, "message")) THEN Get(errorData, "message").s
    ELSE "Webhook request failed with status " \o StatusText(a.status)

\* The inner catch (e) catches whatever the try threw and throws the Error
\* made of the status and the body text; e is not read.
NotOkMessageInnerEscapes(a) == NotOkThrownInTry(a)

NotOkMessage(a) ==
    LET e == NotOkThrownInTry(a) IN
    "Webhook request failed with status " \o StatusText(a.status) \o ": " \o a.text

\* The body of callWebhookTool from fetch on, for the answer a.
callWebhookTool(func, a) ==
    CASE a.kind = "network" -> Relabelled(func, "Failed to fetch")
      [] a.kind = "notok" -> Relabelled(func, NotOkMessage(a))
      [] a.kind = "empty" -> Resolved(EmptyBodyResult(func))
      [] a.kind = "unparseable" ->
            Relabelled(func, "Unexpected token '<', \"<html>\" is not valid JSON")
      [] OTHER ->
            LET out == Normalise(func, a.data) IN
            IF out.ok THEN Resolved(out.value) ELSE Relabelled(func, out.error)

\* callWebhookTool(func, appState) is called: the POST is sent.
CallWebhook ==
    /\ webhook.pc = "idle"
    /\ \E func \in WebhookFunctions :
          webhook' = [IdleWebhook EXCEPT !.pc = "fetching", !.func = func]
    /\ UNCHANGED <<call, probe, verdict, extraction, summary, pair, strategy, reply, wizard, audio>>

\* The fetch settles and the rest of callWebhookTool runs.
WebhookAnswers ==
    /\ webhook.pc = "fetching"
    /\ \E a \in AnswersTo(webhook.func) :
          webhook' = [webhook EXCEPT !.pc = "settled", !.answer = a,
                                     !.outcome = callWebhookTool(webhook.func, a)]
    /\ UNCHANGED <<call, probe, verdict, extraction, summary, pair, strategy, reply, wizard, audio>>

InitWebhook ==
    /\ call = IdleCall
    /\ probe = NoFailure
    /\ verdict = "none"
    /\ extraction = IdleExtraction
    /\ webhook = IdleWebhook
    /\ summary = IdleSummary
    /\ pair = IdlePair
    /\ strategy = IdleStrategy
    /\ reply = IdleReply
    /\ wizard = IdleWizard
    /\ audio = IdleAudio

NextWebhook == CallWebhook \/ WebhookAnswers

SpecWebhook == InitWebhook /\ [][NextWebhook]_vars

(***************************************************************************)
(* Vocabulary of the normalisers' properties.                              *)
(***************************************************************************)
\* callWebhookTool(func, ...) has settled on an ok answer with a JSON body.
NormalisedJson(func) ==
    /\ webhook.pc = "settled"
    /\ webhook.func = func
    /\ webhook.answer.kind = "json"

\* The parsed body nests an array under the field w.
NestsArrayUnder(data, w) ==
    data.t = "object" /\ w \in DOMAIN data.fields /\ IsArray(data.fields[w])

(***************************************************************************)
(* C17. For url_map, page_ranked_keywords and suggested_keywords and every *)
(* ok answer whose body is valid JSON (an object, an array, an array with  *)
(* null or scalars in it, a wrapper field that holds no array),            *)
(* callWebhookTool resolves with an array and never rejects.               *)
(***************************************************************************)
C17_AlwaysAnArray ==
    \A func \in {"url_map", "page_ranked_keywords", "suggested_keywords"} :
        NormalisedJson(func) =>
            /\ webhook.outcome.state = "resolved"
            /\ IsArray(webhook.outcome.value)

(***************************************************************************)
(* C18. Idempotence of the url_map and page_ranked_keywords normalisers:   *)
(* given back the list of records it has produced, as the top-level array  *)
(* or under its wrapper field, the normaliser returns that same list.      *)
(***************************************************************************)
C18_Idempotent ==
    \A func \in {"url_map", "page_ranked_keywords"} :
        (NormalisedJson(func) /\ webhook.outcome.state = "resolved") =>
            LET out == webhook.outcome.value IN
            \/ Normalise(func, out) = Done(out)
            \/ \E w \in WrappersOf(func) : Normalise(func, Wrapped(w, out)) = Done(out)

(***************************************************************************)
(* C19. Wrapper round trip: the call gives the same outcome for the body   *)
(* that nests the list L under the wrapper field of the function and for   *)
(* the body that is L itself, the top-level array.                         *)
(***************************************************************************)
C19_WrapperRoundTrip ==
    \A func \in {"url_map", "page_ranked_keywords", "suggested_keywords"} :
        \A w \in WrappersOf(func) :
            (NormalisedJson(func) /\ NestsArrayUnder(webhook.answer.data, w)) =>
                webhook.outcome =
                    callWebhookTool(func, [webhook.answer EXCEPT
                                               !.data = webhook.answer.data.fields[w]])

(***************************************************************************)
(* C20. In the page_ranked_keywords normaliser every item that is an       *)
(* object yields one record, in input order; a field that is missing takes *)
(* its default (0 for competition, cpc, search_volume and difficulty,      *)
(* "UNKNOWN" for competition_level, "unknown" for intent, "" for keyword)  *)
(* and a field that is present keeps its upstream value.                   *)
(***************************************************************************)
\* The upstream fields a record field is read from, in order of preference.
C20_ReadFrom ==
    [keyword |-> <<"Keyword", "keyword">>,
     competition |-> <<"competition_score">>,
     competition_level |-> <<"competition_level">>,
     cpc |-> <<"cpc">>,
     search_volume |-> <<"search_volume">>,
     difficulty |-> <<"keyword_difficulty">>,
     intent |-> <<"intent">>]

C20_Default ==
    [keyword |-> Str(""), competition |-> Num(0), competition_level |-> Str("UNKNOWN"),
     cpc |-> Num(0), search_volume |-> Num(0), difficulty |-> Num(0),
     intent |-> Str("unknown")]

\* The field `name` of kw counts: it is present and, when truthyOnly, truthy.
C20_Counts(kw, name, truthyOnly) ==
    name \in DOMAIN kw.fields /\ (truthyOnly => Truthy(kw.fields[name]))

\* The value of the first of the fields `names` of kw that counts, or else d.
C20_FirstThat(kw, names, d, truthyOnly) ==
    LET at == {i \in 1..Len(names) : C20_Counts(kw, names[i], truthyOnly)} IN
    IF at = {} THEN d ELSE kw.fields[names[Min(at)]]

\* The body nests a list of objects under ranked_keywords.
C20_ObjectItems ==
    /\ NormalisedJson("page_ranked_keywords")
    /\ NestsArrayUnder(webhook.answer.data, "ranked_keywords")
    /\ \A kw \in Range(webhook.answer.data.fields.ranked_keywords.items) : kw.t = "object"

\* One record for each item, in order, each field read from what counts.
C20_RecordPerItem(truthyOnly) ==
    LET items == webhook.answer.data.fields.ranked_keywords.items
        out == webhook.outcome.value
    IN  /\ webhook.outcome.state = "resolved"
        /\ IsArray(out)
        /\ Len(out.items) = Len(items)
        /\ \A i \in 1..Len(items) :
              /\ out.items[i].t = "object"
              /\ DOMAIN out.items[i].fields = DOMAIN C20_ReadFrom
              /\ \A f \in DOMAIN C20_ReadFrom :
                    out.items[i].fields[f] =
                        C20_FirstThat(items[i], C20_ReadFrom[f], C20_Default[f], truthyOnly)

C21_Dropped(item) ==
    \/ item = Null
    \/ ~IsString(Get(item, "url")) /\ ~IsString(Get(item, "loc"))

C21_Kept(items) == SelectSeq(items, LAMBDA x : ~C21_Dropped(x))

\* The body nests a list of entries under internal_links.
C21_Entries ==
    /\ NormalisedJson("url_map")
    /\ NestsArrayUnder(webhook.answer.data, "internal_links")

\* The records of the result are those of the kept entries, in order.
C21_ResultIsKeptEntries ==
    LET kept == C21_Kept(webhook.answer.data.fields.internal_links.items)
        out == webhook.outcome.value
    IN  /\ IsArray(out)
        /\ Len(out.items) = Len(kept)
        /\ \A i \in 1..Len(kept) :
              /\ out.items[i].t = "object"
              /\ out.items[i].fields.url \in {Get(kept[i], "url"), Get(kept[i], "loc")}

C21_DroppedExactly ==
    C21_Entries => (webhook.outcome.state = "resolved" /\ C21_ResultIsKeptEntries)

(***************************************************************************)
(* What the url_map normaliser does guarantee: the same whenever the call  *)
(* resolves.                                                               *)
(***************************************************************************)
C21_DroppedExactlyWhenResolved ==
    (C21_Entries /\ webhook.outcome.state = "resolved") => C21_ResultIsKeptEntries

(***************************************************************************)
(* The summary mappings of analyzeCompetitors and findEeatSources: one     *)
(* item of the parsed list is turned into one record. An upstream object   *)
(* whose order of keys matters carries its keys in order.                  *)
(***************************************************************************)
\* A summary object holds at most MaxEntries entries.
MaxEntries == 2

\* The object with the entries es (records of a key k and a value v), in order.
Rec(es) ==
    [t |-> "object", n |-> 0, s |-> "",
     fields |-> [k \in {es[i].k : i \in 1..Len(es)} |->
                    es[CHOOSE i \in 1..Len(es) : es[i].k = k].v],
     keys |-> [i \in 1..Len(es) |-> es[i].k]]

\* The decimal form of a natural number.
RECURSIVE Decimal(_)
Decimal(n) ==
    IF n < 10 THEN CharAt("0123456789", n)
    ELSE Decimal(n \div 10) \o CharAt("0123456789", n % 10)

\* String(v) and `${v}` for the values a parsed response holds.
RECURSIVE StringOf(_)
StringOf(v) ==
    CASE v.t = "string" -> v.s
      [] v.t = "number" -> Decimal(v.n)
      [] v.t = "null" -> "null"
      [] v.t = "undefined" -> "undefined"
      [] v.t = "array" ->
            Join([i \in 1..Len(v.items) |->
                     IF HasNoProperties(v.items[i]) THEN "" ELSE StringOf(v.items[i])], ",")
      [] OTHER -> "[object Object]"

\* JSON.stringify(v); the strings of the model hold no character to escape.
RECURSIVE Stringify(_)
Stringify(v) ==
    CASE v.t = "string" -> "\"" \o v.s \o "\""
      [] v.t = "number" -> Decimal(v.n)
      [] v.t \in {"null", "undefined"} -> "null"
      [] v.t = "array" ->
            "[" \o Join([i \in 1..Len(v.items) |-> Stringify(v.items[i])], ",") \o "]"
      [] OTHER ->
            "{" \o Join([i \in 1..Len(v.keys) |->
                            "\"" \o v.keys[i] \o "\":" \o Stringify(v.fields[v.keys[i]])], ",")
                \o "}"

\* k.replace(/_/g, ' ')
RECURSIVE Unscore(_)
Unscore(s) ==
    IF s = "" THEN ""
    ELSE (IF CharAt(s, 0) = "_" THEN " " ELSE CharAt(s, 0)) \o Unscore(SubSeq(s, 2, Len(s)))

\* The key of an entry as the flattened summary shows it.
EntryKey(k) == Unscore(k)

\* Object.entries(o).map(([k, v]) => `${k.replace(/_/g, ' ')}: ${v}`).join('. ')
Flatten(o) ==
    LET keys == IF o.t = "array" THEN [i \in 1..Len(o.items) |-> Decimal(i - 1)] ELSE o.keys
        vals == IF o.t = "array" THEN o.items ELSE [i \in 1..Len(keys) |-> o.fields[keys[i]]]
    IN  Join([i \in 1..Len(keys) |-> EntryKey(keys[i]) \o ": " \o StringOf(vals[i])], ". ")

\* typeof v === 'object'
TypeofObject(v) == v.t \in {"object", "array", "null"}

\* The parts made from the keys at the root of the item.
RootParts(c) ==
    (IF Truthy(Get(c, "main_argument"))
     THEN <<"Argument: " \o StringOf(Get(c, "main_argument"))>> ELSE <<>>)
    \o (IF Truthy(Get(c, "content_gaps"))
        THEN <<"Gaps: " \o StringOf(Get(c, "content_gaps"))>> ELSE <<>>)
    \o (IF Truthy(Get(c, "structure"))
        THEN <<"Structure: " \o StringOf(Get(c, "structure"))>> ELSE <<>>)

\* The callback of (parsedData.competitors || []).map in analyzeCompetitors.
CompetitorSummary(c) ==
    LET s == Get(c, "summary") IN
    IF IsString(s) THEN s.s
    ELSE IF TypeofObject(s) /\ s # Null THEN Flatten(s)
    ELSE IF Join(RootParts(c), ". ") # "" THEN Join(RootParts(c), ". ")
    ELSE "Analysis available in source link."

CompetitorRecord(c) ==
    IF HasNoProperties(c)
    THEN TypeError("Cannot read properties of null (reading 'summary')")
    ELSE Done(Obj([title |-> IF IsString(Get(c, "title")) THEN Get(c, "title")
                             ELSE Str("Competitor Analysis"),
                   summary |-> Str(CompetitorSummary(c))]))

\* The callback of parsed.map in findEeatSources.
SourceSummary(s) ==
    IF TypeofObject(s) THEN Stringify(s) ELSE StringOf(Or(s, Str("")))

SourceRecord(s) ==
    IF HasNoProperties(s)
    THEN TypeError("Cannot read properties of null (reading 'title')")
    ELSE Done(Obj([title |-> Or(Get(s, "title"), Str("Source")),
                   url |-> Or(Get(s, "url"), Str("#")),
                   summary |-> Str(SourceSummary(Get(s, "summary")))]))

SummaryOps == {"analyzeCompetitors", "findEeatSources"}

SummaryRecord(op, item) ==
    IF op = "analyzeCompetitors" THEN CompetitorRecord(item) ELSE SourceRecord(item)

\* The entries a summary object is made of, and the summaries an item holds
\* (undefined stands for an item without the field).
SummaryEntries ==
    {[k |-> "main_argument", v |-> Str("Price wins")],
     [k |-> "gaps", v |-> Str("no data")],
     [k |-> "score", v |-> Num(3)],
     [k |-> "extra", v |-> Null],
     [k |-> "detail", v |-> Rec(<<[k |-> "a", v |-> Str("x")]>>)]}

SummaryObjects ==
    {Rec(es) : es \in {l \in ListsOf(SummaryEntries, MaxEntries) :
                          \A i, j \in 1..Len(l) : l[i].k = l[j].k => i = j}}

SummaryValues ==
    SummaryObjects
    \cup {Undef, Null, Str("Covers pricing."), Str(""), Num(3), Arr(<<Str("a"), Str("b")>>)}

\* The item with the given summary, title and main_argument.
SummaryItem(sv, tv, rv) ==
    Obj([k \in {x \in {"summary", "title", "main_argument"} :
                   \/ x = "summary" /\ sv # Undef
                   \/ x = "title" /\ tv # Undef
                   \/ x = "main_argument" /\ rv # Undef} |->
            CASE k = "summary" -> sv
              [] k = "title" -> tv
              [] OTHER -> rv])

SummaryItems ==
    {Null, Str("x")}
    \cup {SummaryItem(sv, tv, rv) : sv \in SummaryValues, tv \in {Undef, Str("T"), Num(1)},
                                    rv \in {Undef, Str("Price wins")}}

\* One item of the parsed list goes through the mapping of op.
MapSummary ==
    /\ summary.pc = "idle"
    /\ \E op \in SummaryOps, item \in SummaryItems :
          summary' = [pc |-> "mapped", op |-> op, item |-> item,
                      result |-> SummaryRecord(op, item)]
    /\ UNCHANGED <<call, probe, verdict, extraction, webhook, pair, strategy, reply, wizard, audio>>

InitSummary ==
    /\ call = IdleCall
    /\ probe = NoFailure
    /\ verdict = "none"
    /\ extraction = IdleExtraction
    /\ webhook = IdleWebhook
    /\ summary = IdleSummary
    /\ pair = IdlePair
    /\ strategy = IdleStrategy
    /\ reply = IdleReply
    /\ wizard = IdleWizard
    /\ audio = IdleAudio

NextSummary == MapSummary

SpecSummary == InitSummary /\ [][NextSummary]_vars

(***************************************************************************)
(* C22. In analyzeCompetitors and in findEeatSources, when the upstream    *)
(* summary is an object the record's summary is the string made of the     *)
(* object's "key: value" pairs joined by ". " (the key as it is, or with   *)
(* its underscores shown as spaces); in every case the record's summary is *)
(* a string.                                                               *)
(***************************************************************************)
\* The item op has mapped is an object whose summary is sv.
C22_Mapped(op, sv) ==
    /\ summary.pc = "mapped"
    /\ summary.op = op
    /\ summary.item.t = "object"
    /\ Get(summary.item, "summary") = sv

\* The pairs of o joined by ". ", the keys as they are or with spaces.
C22_Pairs(o, spaced) ==
    Join([i \in 1..Len(o.keys) |->
             (IF spaced THEN Unscore(o.keys[i]) ELSE o.keys[i])
                 \o ": " \o StringOf(o.fields[o.keys[i]])], ". ")

C22_IsFlattened(o) ==
    /\ summary.result.ok
    /\ summary.result.value.fields.summary \in {Str(C22_Pairs(o, b)) : b \in BOOLEAN}

C22_AlwaysAString ==
    (summary.pc = "mapped" /\ summary.item.t = "object") =>
        /\ summary.result.ok
        /\ IsString(summary.result.value.fields.summary)

C22_SummaryFlattened ==
    /\ \A op \in SummaryOps, o \in SummaryObjects : C22_Mapped(op, o) => C22_IsFlattened(o)
    /\ C22_AlwaysAString

(***************************************************************************)
(* What the mappings do guarantee: analyzeCompetitors flattens an object   *)
(* summary as said, and both mappings always give a string.                *)
(***************************************************************************)
C22_CompetitorSummaryFlattened ==
    /\ \A o \in SummaryObjects : C22_Mapped("analyzeCompetitors", o) => C22_IsFlattened(o)
    /\ C22_AlwaysAString

(***************************************************************************)
(* C23. When the webhook answers ok with an empty body, callWebhookTool    *)
(* resolves and never rejects, whatever the function; for url_map,         *)
(* page_ranked_keywords and suggested_keywords, whose answers are arrays,  *)
(* it resolves with an empty array.                                        *)
(***************************************************************************)
C23_EmptyBody ==
    /\ webhook.pc = "settled"
    /\ webhook.answer.kind = "empty"

C23_ArrayFunctions == {"url_map", "page_ranked_keywords", "suggested_keywords"}

C23_EmptyBodyIsEmptyResult ==
    C23_EmptyBody =>
        /\ webhook.outcome.state = "resolved"
        /\ webhook.func \in C23_ArrayFunctions => webhook.outcome.value = Arr(<<>>)

(***************************************************************************)
(* What callWebhookTool does guarantee on an empty body: it resolves, with *)
(* an empty array for url_map and page_ranked_keywords and with null for   *)
(* suggested_keywords and url_scrape.                                      *)
(***************************************************************************)
C23_EmptyBodyResolves ==
    C23_EmptyBody =>
        /\ webhook.outcome.state = "resolved"
        /\ webhook.outcome.value =
              (IF webhook.func \in {"url_map", "page_ranked_keywords"} THEN Arr(<<>>) ELSE Null)

(***************************************************************************)
(* Two top-level calls in flight at once. withRetry and withModelFallback  *)
(* keep retries and baseDelay in their parameters and keep nothing at      *)
(* module level; the delay is an awaited timer, so the steps of the two    *)
(* calls interleave freely on the event loop.                              *)
(***************************************************************************)
PairOps == {"withRetry", "withModelFallback"}

\* retries arguments of the concurrent generic withRetry calls.
PairRetries == {1, 2}

PairRemotes ==
    {[ok |-> TRUE, payload |-> "usable", err |-> NoFailure],
     [ok |-> FALSE, payload |-> "none", err |-> ApiError(Num(429), Undef, Str("Too Many Requests"))],
     [ok |-> FALSE, payload |-> "none", err |-> ApiError(Num(400), Undef, Str("Bad Request"))]}

\* Call i goes on to c: only its own record changes.
AdvanceSharedCounter(p, i, c) ==
    [j \in 1..2 |->
        IF j = i THEN [c |-> c, overtook |-> p[j].overtook \/ p[3 - j].c.pc = "sleeping"]
        ELSE [p[j] EXCEPT !.c.retries = c.retries]]

Advance(p, i, c) ==
    [p EXCEPT ![i] = [c |-> c, overtook |-> @.overtook \/ p[3 - i].c.pc = "sleeping"]]

\* The recursive withRetry entered when the delay of c is over.
Woken(c) == withRetry(c, c.stage, NextRetries(c.retries), NextDelay(c.baseDelay))

StartOf(i) ==
    /\ pair[i].c.pc = "idle"
    /\ \/ \E retries \in PairRetries, baseDelay \in BaseDelays :
             pair' = Advance(pair, i, Begin("withRetry", retries, baseDelay))
       \/ pair' = Advance(pair, i, withModelFallback("withModelFallback"))

SettleOf(i) ==
    /\ pair[i].c.pc = "inflight"
    /\ \E r \in PairRemotes :
          LET c == pair[i].c IN
          pair' = Advance(pair, i,
                          Settled(c, r, TaskOutcome(c.op, c.stage, r, Invocations(c))))

WakeOf(i) ==
    /\ pair[i].c.pc = "sleeping"
    /\ pair' = Advance(pair, i, Woken(pair[i].c))

PairStart ==
    /\ \E i \in 1..2 : StartOf(i)
    /\ UNCHANGED <<call, probe, verdict, extraction, webhook, summary, strategy, reply, wizard, audio>>

PairSettle ==
    /\ \E i \in 1..2 : SettleOf(i)
    /\ UNCHANGED <<call, probe, verdict, extraction, webhook, summary, strategy, reply, wizard, audio>>

PairWake ==
    /\ \E i \in 1..2 : WakeOf(i)
    /\ UNCHANGED <<call, probe, verdict, extraction, webhook, summary, strategy, reply, wizard, audio>>

InitPair ==
    /\ call = IdleCall
    /\ probe = NoFailure
    /\ verdict = "none"
    /\ extraction = IdleExtraction
    /\ webhook = IdleWebhook
    /\ summary = IdleSummary
    /\ pair = IdlePair
    /\ strategy = IdleStrategy
    /\ reply = IdleReply
    /\ wizard = IdleWizard
    /\ audio = IdleAudio

NextPair == PairStart \/ PairSettle \/ PairWake

SpecPair == InitPair /\ [][NextPair]_vars

(***************************************************************************)
(* C24. With two withRetry / withModelFallback calls in flight, under      *)
(* every interleaving of their steps each call's invocations, delays,      *)
(* model ids and outcome are those it has alone for the same remote        *)
(* answers; and while one call is in its delay the other can take its      *)
(* next step.                                                              *)
(***************************************************************************)
\* The remote answers call c has received, read from its log.
C24_Answers(c) ==
    LET got == SelectSeq(c.log, LAMBDA e : e.ev \in {"ok", "fail"}) IN
    [k \in 1..Len(got) |->
        [ok |-> got[k].ev = "ok",
         payload |-> IF got[k].ev = "ok" THEN "usable" ELSE "none",
         err |-> got[k].remote]]

\* The call c run on its own, given the remote answers rs in order.
RECURSIVE C24_Alone(_, _)
C24_Alone(c, rs) ==
    IF rs = <<>> THEN c
    ELSE IF c.pc = "sleeping" THEN C24_Alone(Woken(c), rs)
    ELSE IF c.pc = "inflight"
    THEN C24_Alone(Settled(c, Head(rs), TaskOutcome(c.op, c.stage, Head(rs), Invocations(c))),
                   Tail(rs))
    ELSE c

C24_AsAlone(c) ==
    c.pc # "idle" =>
        LET begun == IF c.op = "withRetry" THEN Begin(c.op, c.retries0, c.baseDelay0)
                     ELSE withModelFallback(c.op)
            alone == C24_Alone(begun, C24_Answers(c))
        IN  \/ c = alone
            \/ alone.pc = "sleeping" /\ c = Woken(alone)

C24_CanStep(i) ==
    CASE pair[i].c.pc = "inflight" -> ENABLED SettleOf(i)
      [] pair[i].c.pc = "sleeping" -> ENABLED WakeOf(i)
      [] OTHER -> TRUE

C24_Isolated ==
    /\ \A i \in 1..2 : C24_AsAlone(pair[i].c)
    /\ \A i \in 1..2 : pair[3 - i].c.pc = "sleeping" => C24_CanStep(i)

\* Both calls have retried, with different delays; the second took a step
\* while the first was in its delay, and the first is in a delay still.
C24_Witness ==
    /\ pair[1].c.pc = "sleeping"
    /\ pair[2].overtook
    /\ pair[2].c.pc = "resolved"
    /\ Len(SleepsOf(pair[1].c.log)) = 2
    /\ Len(SleepsOf(pair[2].c.log)) >= 1
    /\ pair[1].c.op # pair[2].c.op

(***************************************************************************)
(* generateKeywordStrategy: one run of the closure given to withRetry.     *)
(* pc is "seeding" while the seed model call is awaited, "gathering"       *)
(* while Promise.all of the webhook calls is awaited, "selecting" while    *)
(* the selection model call is awaited. log records, in order, the start   *)
(* of each remote call and the settling of each webhook call. callWebhook  *)
(* is the caller's function; by its type it returns a promise.             *)
(***************************************************************************)
\* Longest list of seeds the seed call answers with.
MaxSeeds == 4

\* const limitedSeeds = seeds.slice(0, 3);
SeedLimit == 3

Topics == {"best running shoes 2024", "seo"}

\* topic.split(' ').slice(0, 2).join(' ')
FirstTwoWords(topic) ==
    LET words == Split(topic, " ") IN
    Join(SubSeq(words, 1, Min({2, Len(words)})), " ")

SeedLists == {Arr([i \in 1..n |-> Str("seed " \o StringOf(Num(i)))]) : n \in 0..MaxSeeds}

\* What the seed call gives: a failure, a text JSON.parse(extractJson(..))
\* throws on, or a text it parses to a value.
SeedAnswers ==
    {[kind |-> "fail", data |-> Undef], [kind |-> "unparseable", data |-> Undef]}
    \cup {[kind |-> "parsed", data |-> v] :
             v \in SeedLists \cup {Null, Num(5), Str("seo tools"), Obj(<<>>)}}

\* What one callWebhook('suggested_keywords', ..) promise settles with.
SuggestionOutcomes ==
    {Resolved(Arr(<<Str("seo tools free")>>)), Resolved(Null),
     Rejected("Failed to get data from custom tool: suggested_keywords. Failed to fetch")}

SelectionAnswers ==
    {[kind |-> "fail", data |-> Undef], [kind |-> "unparseable", data |-> Undef],
     [kind |-> "parsed", data |-> Arr(<<Str("how to seo")>>)]}

StrategyEvent(ev, i) == [ev |-> ev, i |-> i]

\* The closure's catch: throw new Error("Failed to generate a keyword
\* strategy."). withRetry retries it only if isQuotaError says so.
StrategyRejects(s) ==
    LET e == NewError("Failed to generate a keyword strategy.", 1) IN
    IF RetryDecision(DefaultRetries, e) = "truthy"
    THEN [s EXCEPT !.pc = "sleeping"]
    ELSE [s EXCEPT !.pc = "rejected", !.outcome = Rejected(e.message.s)]

\* results.flat()
RECURSIVE Flat(_)
Flat(results) ==
    IF results = <<>> THEN <<>>
    ELSE (IF IsArray(Head(results)) THEN Head(results).items ELSE <<Head(results)>>)
         \o Flat(Tail(results))

\* The selection prompt is built (seeds.join(', ')) and the call is started.
Select(s) ==
    IF ~IsArray(s.seeds) THEN StrategyRejects(s)
    ELSE [s EXCEPT !.pc = "selecting", !.suggestions = Flat(s.results),
                   !.log = Append(@, StrategyEvent("select", 0))]

\* Promise.all(promises) is fulfilled once every promise is.
AllSettledRace(pending) == TRUE

AllSettled(pending) == pending = {}

\* if (seeds.length > 0) { limitedSeeds.map(seed => callWebhook(..).catch(..)) }
FanOutEverySeed(s) ==
    CASE s.seeds.t \in {"null", "undefined"} -> StrategyRejects(s)
      [] s.seeds.t = "array" /\ Len(s.seeds.items) > 0 ->
            LET n == Len(s.seeds.items) IN
            [s EXCEPT !.pc = "gathering", !.started = n, !.pending = 1..n,
                      !.results = [i \in 1..n |-> Undef],
                      !.log = @ \o [i \in 1..n |-> StrategyEvent("start", i)]]
      [] s.seeds.t = "string" /\ Len(s.seeds.s) > 0 -> StrategyRejects(s)
      [] OTHER -> Select(s)

FanOut(s) ==
    CASE s.seeds.t \in {"null", "undefined"} -> StrategyRejects(s)
      [] s.seeds.t = "array" /\ Len(s.seeds.items) > 0 ->
            LET n == Min({Len(s.seeds.items), SeedLimit}) IN
            [s EXCEPT !.pc = "gathering", !.started = n, !.pending = 1..n,
                      !.results = [i \in 1..n |-> Undef],
                      !.log = @ \o [i \in 1..n |-> StrategyEvent("start", i)]]
      [] s.seeds.t = "string" /\ Len(s.seeds.s) > 0 -> StrategyRejects(s)
      [] OTHER -> Select(s)

StrategyStart ==
    /\ strategy.pc = "idle"
    /\ \E topic \in Topics :
          strategy' = [IdleStrategy EXCEPT !.pc = "seeding", !.topic = topic,
                                           !.log = <<StrategyEvent("seed", 0)>>]
    /\ UNCHANGED <<call, probe, verdict, extraction, webhook, summary, pair, reply, wizard, audio>>

\* The seed call settles; the closure runs up to its next await.
SeedAnswer ==
    /\ strategy.pc = "seeding"
    /\ \E a \in SeedAnswers :
          LET s == [strategy EXCEPT !.answer = a.kind] IN
          strategy' =
              CASE a.kind = "fail" -> StrategyRejects(s)
                [] a.kind = "unparseable" ->
                      FanOut([s EXCEPT !.seeds = Arr(<<Str(FirstTwoWords(s.topic))>>)])
                [] OTHER -> FanOut([s EXCEPT !.seeds = a.data])
    /\ UNCHANGED <<call, probe, verdict, extraction, webhook, summary, pair, reply, wizard, audio>>

\* One webhook promise settles; its .catch turns a rejection into [].
SuggestionSettles ==
    /\ \E i \in strategy.pending, o \in SuggestionOutcomes :
          LET s == [strategy EXCEPT
                       !.pending = @ \ {i},
                       !.failed = IF o.state = "rejected" THEN @ \cup {i} ELSE @,
                       !.results[i] = IF o.state = "rejected" THEN Arr(<<>>) ELSE o.value,
                       !.log = Append(@, StrategyEvent("settle", i))]
          IN  strategy' = IF s.pc = "gathering" /\ AllSettled(s.pending) THEN Select(s) ELSE s
    /\ UNCHANGED <<call, probe, verdict, extraction, webhook, summary, pair, reply, wizard, audio>>

\* The selection call settles: return JSON.parse(extractJson(text)).
SelectionAnswer ==
    /\ strategy.pc = "selecting"
    /\ \E a \in SelectionAnswers :
          strategy' = IF a.kind = "parsed"
                      THEN [strategy EXCEPT !.pc = "resolved", !.outcome = Resolved(a.data)]
                      ELSE StrategyRejects(strategy)
    /\ UNCHANGED <<call, probe, verdict, extraction, webhook, summary, pair, reply, wizard, audio>>

InitStrategy ==
    /\ call = IdleCall
    /\ probe = NoFailure
    /\ verdict = "none"
    /\ extraction = IdleExtraction
    /\ webhook = IdleWebhook
    /\ summary = IdleSummary
    /\ pair = IdlePair
    /\ strategy = IdleStrategy
    /\ reply = IdleReply
    /\ wizard = IdleWizard
    /\ audio = IdleAudio

NextStrategy == StrategyStart \/ SeedAnswer \/ SuggestionSettles \/ SelectionAnswer

SpecStrategy == InitStrategy /\ [][NextStrategy]_vars

(***************************************************************************)
(* C25. In generateKeywordStrategy every webhook call of the fan-out is    *)
(* started before any of them settles, and the selection model call is     *)
(* started only after every one of them has settled, whatever the order    *)
(* in which they settle.                                                   *)
(***************************************************************************)
C25_Positions(ev) == {p \in 1..Len(strategy.log) : strategy.log[p].ev = ev}

C25_StartedThenAwaited ==
    /\ \A p \in C25_Positions("start"), q \in C25_Positions("settle") : p < q
    /\ \A p \in C25_Positions("select") :
          /\ \A q \in C25_Positions("start") \cup C25_Positions("settle") : q < p
          /\ \A i \in 1..strategy.started :
                \E q \in C25_Positions("settle") : strategy.log[q].i = i
          /\ strategy.pending = {}

\* Three webhook calls settled in an order that is not the order of their
\* start, one of them by a rejection, and the selection call was made.
C25_Witness ==
    /\ strategy.pc = "resolved"
    /\ strategy.started = SeedLimit
    /\ [p \in 1..3 |-> strategy.log[4 + p].i] = <<3, 1, 2>>
    /\ strategy.results[1] = Arr(<<>>)
    /\ strategy.results[2] # Arr(<<>>)
    /\ C25_Positions("select") # {}

(***************************************************************************)
(* C26. In withModelFallback every invocation of the primary stage is      *)
(* given PRIMARY_MODEL and every invocation of the fallback stage          *)
(* FALLBACK_MODEL; with no fallback task supplied, the fallback stage runs *)
(* the same closure as the primary stage, with the fallback model id.      *)
(***************************************************************************)
C26_ModelFor(stage) == IF stage = "primary" THEN PRIMARY_MODEL ELSE FALLBACK_MODEL

\* The closure of op, as a function of the model id it is given.
C26_Closure(op, model, r, n) ==
    IF op \in FallbackFacadeOps THEN RethrowTask(op, model, r, n) ELSE OpaqueTask(model, r, n)

\* The settled invocation at position p of the log is one run of the closure
\* of the call's operation with the model id of its stage.
C26_RunOfClosure(c, p) ==
    LET e == c.log[p]
        n == Count(SubSeq(c.log, 1, p), {"invoke"})
    IN  \E r \in RemoteOutcomes :
           LET out == C26_Closure(c.op, C26_ModelFor(e.stage), r, n) IN
           /\ r.err = e.remote
           /\ out.ok = (e.ev = "ok")
           /\ out.err = e.err
           /\ (e.ev = "ok" /\ p = Len(c.log)) => c.result = out.value

C26_ModelPerStage ==
    call.op \in RouterOps =>
        \A p \in 1..Len(call.log) :
            /\ call.log[p].model = C26_ModelFor(call.log[p].stage)
            /\ call.log[p].ev \in {"ok", "fail"} => C26_RunOfClosure(call, p)

\* A facade call whose closure failed on the primary model, ran again on
\* the fallback model, failed there the same way once, and then succeeded.
C26_Witness ==
    /\ call.op \in TrimOps
    /\ call.pc = "resolved"
    /\ call.result.model = FALLBACK_MODEL
    /\ \E p \in 1..Len(call.log) :
          call.log[p].ev = "invoke" /\ call.log[p].model = PRIMARY_MODEL
    /\ \E p \in 1..Len(call.log) :
          call.log[p].ev = "fail" /\ call.log[p].model = FALLBACK_MODEL

(***************************************************************************)
(* The closure of a free-text operation: one generateContent call whose    *)
(* text is returned as response.text.trim(). response.text is undefined    *)
(* when the response holds no text part, and a string otherwise.           *)
(***************************************************************************)
FreeTextOps == {"reviewArticle", "transformText", "regenerateTitle"}

ReplyTexts ==
    {Undef}
    \cup {Str(lead \o core \o trail) :
             lead \in {"", " ", "\n"},
             core \in {"", "Title", "Two words", "~~~json\n[1]\n~~~"},
             trail \in {"", " ", "\n"}}

ReplyAnswers ==
    {[ok |-> TRUE, text |-> t, err |-> NoFailure] : t \in ReplyTexts}
    \cup {[ok |-> FALSE, text |-> Undef, err |-> e] : e \in RemoteFailures}

\* The try block: await generateContent(..); return response.text.trim();
FreeTextTry(a) ==
    IF ~a.ok THEN [ok |-> FALSE, value |-> Undef, err |-> a.err]
    ELSE IF a.text = Undef
    THEN [ok |-> FALSE, value |-> Undef,
          err |-> NewError("Cannot read properties of undefined (reading 'trim')", 0)]
    ELSE [ok |-> TRUE, value |-> Str(Trim(a.text.s)), err |-> NoFailure]

\* The catch block: regenerateTitle throws a new Error with its label, the
\* other operations rethrow the failure.
FreeTextClosure(op, a) ==
    LET tried == FreeTextTry(a) IN
    IF ~tried.ok /\ op = "regenerateTitle"
    THEN [tried EXCEPT !.err = NewError(Label(op), 0)]
    ELSE tried

FreeTextCall ==
    /\ reply.pc = "idle"
    /\ \E op \in FreeTextOps : reply' = [IdleReply EXCEPT !.pc = "asked", !.op = op]
    /\ UNCHANGED <<call, probe, verdict, extraction, webhook, summary, pair, strategy, wizard, audio>>

\* The remote call settles and the rest of the closure runs.
FreeTextAnswer ==
    /\ reply.pc = "asked"
    /\ \E a \in ReplyAnswers :
          reply' = [reply EXCEPT !.pc = "settled", !.ok = a.ok, !.text = a.text,
                                 !.thrown = a.err, !.out = FreeTextClosure(reply.op, a)]
    /\ UNCHANGED <<call, probe, verdict, extraction, webhook, summary, pair, strategy, wizard, audio>>

InitFreeText ==
    /\ call = IdleCall
    /\ probe = NoFailure
    /\ verdict = "none"
    /\ extraction = IdleExtraction
    /\ webhook = IdleWebhook
    /\ summary = IdleSummary
    /\ pair = IdlePair
    /\ strategy = IdleStrategy
    /\ reply = IdleReply
    /\ wizard = IdleWizard
    /\ audio = IdleAudio

NextFreeText == FreeTextCall \/ FreeTextAnswer

SpecFreeText == InitFreeText /\ [][NextFreeText]_vars

(***************************************************************************)
(* C27. In reviewArticle, transformText and regenerateTitle a successful   *)
(* remote call gives the raw text with the white space at its ends         *)
(* removed, with no extraction; a remote call whose text is empty gives a  *)
(* failure and not the empty string.                                       *)
(***************************************************************************)
C27_Ops == {"reviewArticle", "transformText", "regenerateTitle"}

C27_Answered ==
    /\ reply.pc = "settled"
    /\ reply.op \in C27_Ops
    /\ reply.ok

C27_EmptyText == reply.text \in {Undef, Str("")}

\* The raw text without the white space at its two ends.
C27_Trimmed(s) ==
    LET kept == {i \in 1..Len(s) : ~IsSpace(SubSeq(s, i, i))} IN
    IF kept = {} THEN "" ELSE SubSeq(s, Min(kept), Max(kept))

C27_TrimmedRawText ==
    (C27_Answered /\ ~C27_EmptyText) =>
        /\ reply.out.ok
        /\ reply.out.value = Str(C27_Trimmed(reply.text.s))

C27_TrimmedOrFailure ==
    /\ C27_TrimmedRawText
    /\ (C27_Answered /\ C27_EmptyText) => ~reply.out.ok

(***************************************************************************)
(* What the closures do guarantee: a text that is a string, empty or not,  *)
(* is returned trimmed, and only a response without text gives a failure.  *)
(***************************************************************************)
C27_OnlyMissingTextFails ==
    /\ C27_TrimmedRawText
    /\ C27_Answered => (reply.out.ok <=> reply.text # Undef)
    /\ (C27_Answered /\ reply.text = Str("")) => reply.out.value = Str("")

(***************************************************************************)
(* The call machine under the assumption that every remote invocation      *)
(* settles and every setTimeout fires: an awaited invocation is eventually *)
(* answered and a delay eventually ends.                                   *)
(***************************************************************************)
FairSpec == Init /\ [][Next]_vars /\ WF_vars(Settle) /\ WF_vars(Wake)

(***************************************************************************)
(* C28. If every invocation and every delay completes, every withRetry or  *)
(* withModelFallback call that was started completes, resolved or          *)
(* rejected; and one withModelFallback call makes at most 2 invocations on *)
(* the primary stage and at most 4 on the fallback stage, 6 in all.        *)
(***************************************************************************)
C28_Pending == call.pc \in {"inflight", "sleeping"}

C28_Completed == call.pc \in {"resolved", "rejected"}

C28_InvocationBudget ==
    call.op \in RouterOps =>
        /\ Cardinality(At(call, {"invoke"}, "primary")) <= 2
        /\ Cardinality(At(call, {"invoke"}, "fallback")) <= 4
        /\ Invocations(call) <= 6

C28_EventuallyCompletes ==
    /\ C28_Pending ~> C28_Completed
    /\ []C28_InvocationBudget

\* A withModelFallback call that used its whole budget and has completed.
C28_Witness ==
    /\ call.op = "withModelFallback"
    /\ C28_Completed
    /\ Cardinality(At(call, {"invoke"}, "primary")) = 2
    /\ Cardinality(At(call, {"invoke"}, "fallback")) = 4

(***************************************************************************)
(* C29. withModelFallback decides on the fallback stage from the last      *)
(* failure of the primary stage only: the fallback stage is entered        *)
(* exactly when that failure is Transient, and when it is Fatal (after a   *)
(* first Transient one, say) the fallback is not invoked and the Fatal     *)
(* failure is surfaced. Once the fallback stage is entered, the failure    *)
(* surfaced when it fails is the last failure of the fallback stage, never *)
(* a failure of the primary stage.                                         *)
(***************************************************************************)
\* The primary stage of c has ended with a failure.
C29_PrimaryFailed(c) ==
    /\ c.op \in RouterOps
    /\ c.stage = "fallback" \/ c.pc = "rejected"
    /\ At(c, {"fail"}, "primary") # {}

C29_LastFailure(c, stage) == c.log[Max(At(c, {"fail"}, stage))].err

C29_FallbackEntered(c) == At(c, {"invoke"}, "fallback") # {}

C29_Decision(c) ==
    C29_PrimaryFailed(c) =>
        /\ C29_FallbackEntered(c) <=> IsTransient(C29_LastFailure(c, "primary"))
        /\ IsFatal(C29_LastFailure(c, "primary")) =>
              c.pc = "rejected" /\ c.err = C29_LastFailure(c, "primary")

\* surfaced is what the stage's withRetry rejects with for the task failure e:
\* e itself, or with asIs false also the TypeError of the classifier on e.
C29_Surfaces(c, e, asIs) ==
    \/ c.err = e
    \/ ~asIs /\ isQuotaError(e) = "throws" /\ c.err = ClassifierTypeError(e, c.err.id)

C29_FallbackFailure(c, asIs) ==
    (c.op \in RouterOps /\ C29_FallbackEntered(c) /\ c.pc = "rejected") =>
        /\ At(c, {"fail"}, "fallback") # {}
        /\ Max(At(c, {"fail"}, "fallback")) = Len(c.log)
        /\ C29_Surfaces(c, C29_LastFailure(c, "fallback"), asIs)
        /\ c.err.id > Cardinality(At(c, {"invoke"}, "primary"))

C29_LastFailureDecides ==
    /\ C29_Decision(call)
    /\ C29_FallbackFailure(call, TRUE)

(***************************************************************************)
(* What withModelFallback does guarantee: the same, where the failure      *)
(* surfaced by the fallback stage is its last failure or the TypeError     *)
(* that isQuotaError raised on it.                                         *)
(***************************************************************************)
C29_LastFailureOrItsTypeError ==
    /\ C29_Decision(call)
    /\ C29_FallbackFailure(call, FALSE)

(***************************************************************************)
(* C30. generateArticleImage starts its second method (Imagen) after every *)
(* failure of the first method's retry stage, whatever the failure is, and *)
(* only once the invocations of the first method have all ended; the first *)
(* method is invoked at most twice and the second at most twice; and when  *)
(* the call fails, the failure the caller receives is one of the second    *)
(* stage (the failure of its last invocation, or the TypeError that        *)
(* withRetry's classifier raised on it), never one of the first stage.     *)
(***************************************************************************)
\* Every failed invocation of the first method is followed at once by the
\* retry delay or by the first invocation of the second method.
C30_SecondMethodAfterAnyFailure(c) ==
    /\ \A i \in At(c, {"fail"}, "primary") :
          /\ i < Len(c.log)
          /\ \/ c.log[i + 1].ev = "sleep" /\ c.log[i + 1].stage = "primary"
             \/ c.log[i + 1].ev = "invoke" /\ c.log[i + 1].stage = "fallback"
    /\ c.pc = "rejected" => c.stage = "fallback"

\* No event of the first method follows one of the second, and the second
\* method starts with every invocation of the first one settled.
C30_AfterFirstMethodEnded(c) ==
    \A j \in At(c, {"invoke"}, "fallback") :
        /\ \A i \in At(c, {"invoke", "ok", "fail", "sleep"}, "primary") : i < j
        /\ Cardinality(At(c, {"invoke"}, "primary")) = Cardinality(At(c, {"fail"}, "primary"))

C30_SecondStageFailureReceived(c) ==
    c.pc = "rejected" =>
        /\ At(c, {"fail"}, "fallback") # {}
        /\ Max(At(c, {"fail"}, "fallback")) = Len(c.log)
        /\ LET e == c.log[Len(c.log)].err IN
              \/ c.err = e
              \/ isQuotaError(e) = "throws" /\ c.err = ClassifierTypeError(e, c.err.id)
        /\ c.err.id > Cardinality(At(c, {"invoke"}, "primary"))

C30_ImagenAfterAnyFailure ==
    call.op \in ImageOps =>
        /\ C30_SecondMethodAfterAnyFailure(call)
        /\ C30_AfterFirstMethodEnded(call)
        /\ Cardinality(At(call, {"invoke"}, "primary")) <= 2
        /\ Cardinality(At(call, {"invoke"}, "fallback")) <= 2
        /\ C30_SecondStageFailureReceived(call)

\* The first method answered once without image data (a Fatal failure);
\* Imagen was invoked twice and its last failure is what the caller has.
C30_Witness ==
    /\ call.op \in ImageOps
    /\ call.pc = "rejected"
    /\ Cardinality(At(call, {"invoke"}, "primary")) = 1
    /\ call.log[2].err.message = Str("No image data from Nano Banana.")
    /\ IsFatal(call.log[2].err)
    /\ Cardinality(At(call, {"invoke"}, "fallback")) = 2
    /\ call.err = call.log[Len(call.log)].err

(***************************************************************************)
(* chatWithDraft: the closure given to withModelFallback sends the user's  *)
(* message; if the answer holds a function call it runs the first one      *)
(* through callWebhookTool and sends the tool's result back. Its catch     *)
(* rethrows. One run of the closure is one invocation of the call machine. *)
(***************************************************************************)
ToolNames == {"get_keyword_data", "analyze_url", "other_tool"}

\* The webhook function requested for a function call of the given name.
ToolFunction(name) ==
    IF name = "get_keyword_data" THEN "suggested_keywords"
    ELSE IF name = "analyze_url" THEN "url_scrape"
    ELSE ""

\* What the webhook answers to the tool's request.
ChatWebhookAnswers ==
    {[kind |-> "network", status |-> 0, text |-> "", data |-> Undef],
     [kind |-> "empty", status |-> 200, text |-> "", data |-> Undef]}
    \cup {[kind |-> "notok", status |-> st, text |-> "Internal Server Error", data |-> Undef] :
             st \in {404, 429, 500}}

\* One run of the closure: what the first sendMessage gives (a failure, a
\* text, or a function call), what the webhook answers, what the second
\* sendMessage gives.
ChatRuns ==
    {[first |-> f, tool |-> "", answer |-> NoAnswer, second |-> "none"] :
        f \in {"fail429", "fail400", "text"}}
    \cup {[first |-> "call", tool |-> t, answer |-> a, second |-> s] :
             t \in ToolNames, a \in ChatWebhookAnswers, s \in {"fail429", "text"}}

ChatFailure(kind) ==
    IF kind = "fail429" THEN ApiError(Num(429), Undef, Str("Too Many Requests"))
    ELSE ApiError(Num(400), Undef, Str("Bad Request"))

\* What the remote side answered in the run, as the log keeps it; a webhook
\* response that is not ok is kept with its status and body text.
ChatRemote(run, failed, viaWebhook) ==
    [ok |-> ~failed, payload |-> IF failed THEN "none" ELSE "usable",
     err |-> IF ~failed THEN NoFailure
             ELSE IF viaWebhook
             THEN Failure("response", Num(run.answer.status), Undef, Str(run.answer.text), 0)
             ELSE ChatFailure(IF run.first = "call" THEN run.second ELSE run.first)]

\* The closure's outcome and the remote answer behind it, for invocation n.
ChatClosure(model, run, n) ==
    IF run.first \in {"fail429", "fail400"}
    THEN [r |-> ChatRemote(run, TRUE, FALSE), out |-> Thrown(ChatFailure(run.first), n)]
    ELSE IF run.first = "text"
    THEN [r |-> ChatRemote(run, FALSE, FALSE), out |-> Returned("data", model, n)]
    ELSE LET tool == IF ToolFunction(run.tool) = "" THEN Resolved(Undef)
                     ELSE callWebhookTool(ToolFunction(run.tool), run.answer)
         IN  IF tool.state = "rejected"
             THEN [r |-> ChatRemote(run, TRUE, run.answer.kind = "notok"),
                   out |-> Thrown(NewError(tool.message, n), n)]
             ELSE IF run.second = "fail429"
             THEN [r |-> ChatRemote(run, TRUE, FALSE), out |-> Thrown(ChatFailure(run.second), n)]
             ELSE [r |-> ChatRemote(run, FALSE, FALSE), out |-> Returned("data", model, n)]

StartChat ==
    /\ call.pc = "idle"
    /\ call' = withModelFallback("chatWithDraft")
    /\ UNCHANGED <<probe, verdict, extraction, webhook, summary, pair, strategy, reply, wizard, audio>>

\* The run of the closure in flight ends.
ChatSettle ==
    /\ call.pc = "inflight"
    /\ \E run \in ChatRuns :
          LET done == ChatClosure(ModelOf(call.op, call.stage), run, Invocations(call)) IN
          call' = Settled(call, done.r, done.out)
    /\ UNCHANGED <<probe, verdict, extraction, webhook, summary, pair, strategy, reply, wizard, audio>>

NextChat == StartChat \/ ChatSettle \/ Wake

SpecChat == Init /\ [][NextChat]_vars

(***************************************************************************)
(* C31. In chatWithDraft, when the webhook request of a tool call is       *)
(* answered with status 500 or 429, the error callWebhookTool throws is    *)
(* Transient for isQuotaError: the whole closure is run again by the       *)
(* primary retry stage and then by the fallback stage, at most 6 runs in   *)
(* all.                                                                    *)
(***************************************************************************)
\* The failed run at position i of the log had its webhook request answered
\* with status 500 or 429.
C31_WebhookOverloaded(c, i) ==
    /\ c.log[i].ev = "fail"
    /\ c.log[i].remote.kind = "response"
    /\ c.log[i].remote.status \in {Num(500), Num(429)}

C31_RunAgain(c, i) ==
    /\ IsTransient(c.log[i].err)
    /\ i < Len(c.log) =>
          \/ c.log[i + 1].ev = "sleep" /\ c.log[i].left > 0
          \/ /\ c.log[i + 1].ev = "invoke"
             /\ c.log[i].stage = "primary" /\ c.log[i + 1].stage = "fallback"
             /\ c.log[i].left = 0
    /\ i = Len(c.log) =>
          /\ c.pc = "rejected"
          /\ c.log[i].stage = "fallback"
          /\ c.log[i].left = 0
          /\ Invocations(c) = 6

C31_WebhookFailureRetried ==
    call.op = "chatWithDraft" =>
        /\ \A i \in 1..Len(call.log) : C31_WebhookOverloaded(call, i) => C31_RunAgain(call, i)
        /\ Invocations(call) <= 6

\* Six runs, each with a webhook request answered 500 or 429, then the
\* failure of the last run reaches the caller.
C31_Witness ==
    /\ call.op = "chatWithDraft"
    /\ call.pc = "rejected"
    /\ Invocations(call) = 6
    /\ Cardinality({i \in 1..Len(call.log) : C31_WebhookOverloaded(call, i)}) = 6
    /\ \E i, j \in 1..Len(call.log) :
          call.log[i].remote.status = Num(500) /\ call.log[j].remote.status = Num(429)

(***************************************************************************)
(* C32. Every rejection of callWebhookTool (network failure, status that   *)
(* is not ok, body that cannot be parsed, failure inside a normaliser)     *)
(* carries a message that starts with "Failed to get data from custom      *)
(* tool: <function>."; for a response that is not ok the message contains  *)
(* "Webhook request failed with status <status>: <body text>", also when   *)
(* the body is JSON with a message field.                                  *)
(***************************************************************************)
C32_Rejected ==
    /\ webhook.pc = "settled"
    /\ webhook.outcome.state = "rejected"

C32_LabelledRejection ==
    C32_Rejected =>
        /\ StartsWith(webhook.outcome.message,
                      "Failed to get data from custom tool: " \o webhook.func \o ".")
        /\ webhook.answer.kind = "notok" =>
              Includes(webhook.outcome.message,
                       "Webhook request failed with status "
                           \o StringOf(Num(webhook.answer.status)) \o ": "
                           \o webhook.answer.text)

\* A 404 answer whose body is JSON with a message field.
C32_Witness ==
    /\ C32_Rejected
    /\ webhook.answer.kind = "notok"
    /\ webhook.answer.status = 404
    /\ Includes(webhook.answer.text, "\"message\"")

(***************************************************************************)
(* C33. Every record the url_map normaliser returns has a url that is a    *)
(* non-empty string and a title that is a non-empty string, for every      *)
(* answer whose body is valid JSON, entries with an empty url or with a    *)
(* non-string url beside a string loc included.                            *)
(***************************************************************************)
C33_Records ==
    IF NormalisedJson("url_map") /\ webhook.outcome.state = "resolved"
    THEN Range(webhook.outcome.value.items)
    ELSE {}

C33_NonEmptyString(v) == IsString(v) /\ v.s # ""

C33_UrlAndTitleNonEmpty ==
    \A rec \in C33_Records :
        /\ C33_NonEmptyString(Get(rec, "url"))
        /\ C33_NonEmptyString(Get(rec, "title"))

(***************************************************************************)
(* What the url_map normaliser does guarantee: the title of every record   *)
(* is a non-empty string, and its url is the truthy one of the entry's url *)
(* and loc (or undefined when neither is), a non-empty string whenever     *)
(* that value is a string.                                                 *)
(***************************************************************************)
C33_TitleNonEmpty ==
    \A rec \in C33_Records :
        /\ C33_NonEmptyString(Get(rec, "title"))
        /\ IsString(Get(rec, "url")) => Get(rec, "url").s # ""

(***************************************************************************)
(* C34. Whenever extractJson takes the bracket branch (no fenced block, an *)
(* opening "{" or "[" in the text and its closing character somewhere in   *)
(* the text), the string returned begins with that first opening character *)
(* and ends with the matching closing character, also when every closing   *)
(* character stands before the first opening one.                          *)
(***************************************************************************)
C34_BracketBranch(t) ==
    /\ Extracted(t)
    /\ ~HasFencedBlock(t)
    /\ search(t, {"{", "["}) # -1
    /\ lastIndexOf(t, Closer(CharAt(t, search(t, {"{", "["})))) # -1

C34_Delimited(t, out) ==
    LET open == CharAt(t, search(t, {"{", "["})) IN
    /\ Len(out) >= 2
    /\ SubSeq(out, 1, 1) = open
    /\ SubSeq(out, Len(out), Len(out)) = Closer(open)

C34_BeginsAndEndsWithBrackets ==
    C34_BracketBranch(extraction.text) => C34_Delimited(extraction.text, extraction.result)

(***************************************************************************)
(* What extractJson does guarantee: the same when a closing character      *)
(* stands after the first opening one.                                     *)
(***************************************************************************)
C34_DelimitedWhenClosedLater ==
    LET t == extraction.text IN
    (C34_BracketBranch(t)
        /\ lastIndexOf(t, Closer(CharAt(t, search(t, {"{", "["})))) > search(t, {"{", "["}))
        => C34_Delimited(t, extraction.result)

(***************************************************************************)
(* C35. In generateKeywordStrategy at most 3 webhook calls are started in  *)
(* one run, whatever the number of seeds; a webhook call that fails        *)
(* contributes an empty list and does not make the operation fail; and a   *)
(* seed answer that cannot be parsed is replaced by the single seed made   *)
(* of the first two words of the topic.                                    *)
(***************************************************************************)
\* The words of the topic: the runs of characters between spaces.
C35_Words(topic) ==
    LET n == Len(topic)
        starts == {i \in 1..n : SubSeq(topic, i, i) # " "
                                  /\ (i = 1 \/ SubSeq(topic, i - 1, i - 1) = " ")}
        EndOf(i) == Min({j \in i..n : j = n \/ SubSeq(topic, j + 1, j + 1) = " "})
        RECURSIVE From(_)
        From(S) == IF S = {} THEN <<>>
                   ELSE <<SubSeq(topic, Min(S), EndOf(Min(S)))>> \o From(S \ {Min(S)})
    IN  From(starts)

C35_FirstTwoWords(topic) ==
    LET w == C35_Words(topic) IN
    IF Len(w) = 0 THEN "" ELSE IF Len(w) = 1 THEN w[1] ELSE w[1] \o " " \o w[2]

\* What the calls contribute, a failed one nothing.
RECURSIVE C35_Contributions(_, _, _)
C35_Contributions(results, failed, i) ==
    IF i > Len(results) THEN <<>>
    ELSE (IF i \in failed THEN <<>>
          ELSE IF IsArray(results[i]) THEN results[i].items ELSE <<results[i]>>)
         \o C35_Contributions(results, failed, i + 1)

C35_AllSettled == strategy.started > 0 /\ strategy.pending = {}

C35_WitnessUnparseable ==
    /\ strategy.pc = "resolved"
    /\ strategy.answer = "unparseable"
    /\ strategy.seeds = Arr(<<Str("best running")>>)
    /\ strategy.failed = {1}

\* ------------------------------------------------------------------------
\* The wizard of App (src/App.tsx): appState, activeStep and
\* highestCompletedStepIndex, the handlers handed to the step components, the
\* persistence effect and what a reload of the page starts from.
\* ------------------------------------------------------------------------

\* WORKFLOW_STEPS is imported from ./types. App.tsx shows its order twice: the
\* keys of STEP_COMPONENTS (lines 23-29) and the index/step pairs of
\* getInitialProgress (lines 53-67), where step is WORKFLOW_STEPS[index + 1].
WORKFLOW_STEPS ==
    <<"Setup", "Topic Ideation", "Research & Outline", "Drafting", "Publish">>

\* The indices the sidebar hands to goToStep: it maps over WORKFLOW_STEPS.
StepIndices == 0..(Len(WORKFLOW_STEPS) - 1)

\* WORKFLOW_STEPS.indexOf(step), counted from 0 as in the source.
IndexOfStep(step) ==
    IF \E i \in StepIndices : WORKFLOW_STEPS[i + 1] = step
    THEN CHOOSE i \in StepIndices : WORKFLOW_STEPS[i + 1] = step
    ELSE -1

\* The image URLs handleImageGenerated is called with; the last one is a data
\* URL, which the persistence effect does not store.
DataUrls == {"data:image/png;base64,iVBOR"}
ImageUrls == {"", "https://cdn.example/header.png"} \cup DataUrls

\* Arguments of the completion handlers, empty ones included.
SetupArgs ==
    {[websiteUrl |-> "", country |-> "", language |-> ""],
     [websiteUrl |-> "https://site.example", country |-> "US", language |-> "en"]}
TopicArgs == {"", "trail running shoes"}
OutlineArgs == {<<>>, <<"Choosing a shoe">>}
\* An InternalLink is kept whole by every handler; it stands here as its URL.
LinkArgs == {<<>>, <<"https://site.example/fit">>}
DraftArgs == {"", "# Trail shoes"}

\* getInitialProgress, lines 53-67: the first non-empty field decides.
getInitialProgress(initialState) ==
    IF initialState.draft # "" THEN [index |-> 3, step |-> "Publish"]
    ELSE IF Len(initialState.outline) > 0 THEN [index |-> 2, step |-> "Drafting"]
    ELSE IF initialState.topic # "" THEN [index |-> 1, step |-> "Research & Outline"]
    ELSE IF initialState.websiteUrl # "" THEN [index |-> 0, step |-> "Topic Ideation"]
    ELSE [index |-> -1, step |-> "Setup"]

\* getInitialState, lines 40-51: the stored state when there is one. The item
\* is JSON of strings and lists of plain data, which JSON.parse gives back
\* equal.
getInitialState(stored) == IF stored.present THEN stored.state ELSE DefaultState

\* The persistence effect, lines 82-93: a data URL is stored as ''.
stateToSave(appState) ==
    IF appState.imageUrl \in DataUrls THEN [appState EXCEPT !.imageUrl = ""]
    ELSE appState

\* The effect after a change of appState: setItem stores the state, or throws
\* where the browser gives the page no storage, which the effect only logs.
Persist(w) ==
    IF w.storage THEN [w EXCEPT !.stored = [present |-> TRUE, state |-> stateToSave(w.appState)]]
    ELSE w

\* goToStep's condition with the off-by-one of a guard that lets the step after
\* the next one through.
goToStepAllowedTwoAhead(w, stepIndex) == stepIndex <= w.highestCompletedStepIndex + 2

\* goToStep, lines 105-110.
goToStepAllowed(w, stepIndex) == stepIndex <= w.highestCompletedStepIndex + 1

goToStep(w, stepIndex) ==
    IF goToStepAllowed(w, stepIndex)
    THEN [w EXCEPT !.activeStep = WORKFLOW_STEPS[stepIndex + 1]]
    ELSE w

\* handleSetupComplete, lines 112-116.
handleSetupComplete(w, a) ==
    [w EXCEPT !.appState = [@ EXCEPT !.websiteUrl = a.websiteUrl,
                                     !.country = a.country,
                                     !.language = a.language,
                                     !.topic = "", !.outline = <<>>, !.draft = "",
                                     !.imageUrl = "", !.internalLinks = <<>>],
              !.highestCompletedStepIndex = 0,
              !.activeStep = "Topic Ideation"]

\* handleTopicSelect that leaves the later fields as they were.
handleTopicSelectKeepsLater(w, topic) ==
    [w EXCEPT !.appState = [@ EXCEPT !.topic = topic],
              !.highestCompletedStepIndex = 1,
              !.activeStep = "Research & Outline"]

\* handleTopicSelect, lines 118-122.
handleTopicSelect(w, topic) ==
    [w EXCEPT !.appState = [@ EXCEPT !.topic = topic, !.outline = <<>>, !.draft = "",
                                     !.imageUrl = "", !.internalLinks = <<>>],
              !.highestCompletedStepIndex = 1,
              !.activeStep = "Research & Outline"]

\* handleOutlineComplete that keeps the draft written for the outline before.
handleOutlineCompleteKeepsDraft(w, outline, internalLinks) ==
    [w EXCEPT !.appState = [@ EXCEPT !.outline = outline,
                                     !.internalLinks = internalLinks],
              !.highestCompletedStepIndex = 2,
              !.activeStep = "Drafting"]

\* handleOutlineComplete, lines 124-128.
handleOutlineComplete(w, outline, internalLinks) ==
    [w EXCEPT !.appState = [@ EXCEPT !.outline = outline,
                                     !.internalLinks = internalLinks,
                                     !.draft = "", !.imageUrl = ""],
              !.highestCompletedStepIndex = 2,
              !.activeStep = "Drafting"]

\* handleDraftComplete, lines 130-134.
handleDraftComplete(w, draft) ==
    [w EXCEPT !.appState = [@ EXCEPT !.draft = draft],
              !.highestCompletedStepIndex = 3,
              !.activeStep = "Publish"]

\* handleImageGenerated, lines 136-138.
handleImageGenerated(w, imageUrl) ==
    [w EXCEPT !.appState = [@ EXCEPT !.imageUrl = imageUrl]]

\* handleRestart once window.confirm said yes, lines 140-152: the item is
\* removed when the handler runs, and the effect that follows the change of
\* appState stores the default state again.
handleRestart(w) ==
    [w EXCEPT !.appState = DefaultState,
              !.highestCompletedStepIndex = -1,
              !.activeStep = "Setup",
              !.stored = NoItem]

\* A reload of the page: App is constructed from the stored item, lines 69-73.
Reloaded(w) ==
    [w EXCEPT !.appState = getInitialState(w.stored),
              !.activeStep = getInitialProgress(getInitialState(w.stored)).step,
              !.highestCompletedStepIndex =
                  getInitialProgress(getInitialState(w.stored)).index]

\* The fields of appState whose value differs between two states of the wizard.
ChangedFields(before, after) ==
    {f \in DOMAIN before.appState : before.appState[f] # after.appState[f]}

\* The handler op has just taken the wizard from before to w (index is the
\* argument of a goToStep).
Ran(before, w, op, index) ==
    [w EXCEPT !.last = op, !.index = index, !.changed = ChangedFields(before, w)]

\* Some argument of a completion handler was empty.
WithEmptyArgument(w, empty) == [w EXCEPT !.emptyArgument = @ \/ empty]

GoToStep ==
    \E stepIndex \in StepIndices :
        wizard' = Ran(wizard, goToStep(wizard, stepIndex), "goToStep", stepIndex)

\* Each handler below is followed by the persistence effect, which runs after
\* every change of appState.
SetupComplete ==
    \E a \in SetupArgs :
        LET empty == "" \in {a.websiteUrl, a.country, a.language}
            w == WithEmptyArgument(handleSetupComplete(wizard, a), empty)
        IN  wizard' = Ran(wizard, Persist(w), "handleSetupComplete", -1)

TopicSelect ==
    \E topic \in TopicArgs :
        LET w == WithEmptyArgument(handleTopicSelect(wizard, topic), topic = "")
        IN  wizard' = Ran(wizard, Persist(w), "handleTopicSelect", -1)

OutlineComplete ==
    \E outline \in OutlineArgs, internalLinks \in LinkArgs :
        LET empty == Len(outline) = 0 \/ Len(internalLinks) = 0
            w == WithEmptyArgument(
                     handleOutlineComplete(wizard, outline, internalLinks), empty)
        IN  wizard' = Ran(wizard, Persist(w), "handleOutlineComplete", -1)

DraftComplete ==
    \E draft \in DraftArgs :
        LET w == WithEmptyArgument(handleDraftComplete(wizard, draft), draft = "")
        IN  wizard' = Ran(wizard, Persist(w), "handleDraftComplete", -1)

ImageGenerated ==
    \E imageUrl \in ImageUrls :
        wizard' = Ran(wizard, Persist(handleImageGenerated(wizard, imageUrl)),
                      "handleImageGenerated", -1)

\* window.confirm answers no: nothing is set.
Restart ==
    \E confirmed \in BOOLEAN :
        wizard' = IF confirmed
                  THEN Ran(wizard, Persist(handleRestart(wizard)), "handleRestart", -1)
                  ELSE Ran(wizard, wizard, "handleRestart declined", -1)

\* The page is loaded again; the persistence effect runs on the mount.
Reload == wizard' = Ran(wizard, Persist(Reloaded(wizard)), "reload", -1)

InitWizard ==
    /\ call = IdleCall
    /\ probe = NoFailure
    /\ verdict = "none"
    /\ extraction = IdleExtraction
    /\ webhook = IdleWebhook
    /\ summary = IdleSummary
    /\ pair = IdlePair
    /\ strategy = IdleStrategy
    /\ reply = IdleReply
    /\ \E storage \in BOOLEAN : wizard = Persist([IdleWizard EXCEPT !.storage = storage])
    /\ audio = IdleAudio

NextWizard ==
    /\ \/ GoToStep
       \/ SetupComplete
       \/ TopicSelect
       \/ OutlineComplete
       \/ DraftComplete
       \/ ImageGenerated
       \/ Restart
       \/ Reload
    /\ UNCHANGED <<call, probe, verdict, extraction, webhook, summary, pair, strategy,
                   reply, audio>>

SpecWizard == InitWizard /\ [][NextWizard]_vars

\* ---- C36 ----

\* The position of activeStep in WORKFLOW_STEPS is a step and is at most one
\* past the highest completed step.
C36_WithinReach ==
    /\ IndexOfStep(wizard.activeStep) \in StepIndices
    /\ IndexOfStep(wizard.activeStep) <= wizard.highestCompletedStepIndex + 1

\* A step of goToStep whose index is more than one past the highest completed
\* step leaves activeStep (and the progress) as it was.
C36_BlockedStep ==
    (/\ wizard'.last = "goToStep"
     /\ wizard'.index > wizard.highestCompletedStepIndex + 1)
    => /\ wizard'.activeStep = wizard.activeStep
       /\ wizard'.highestCompletedStepIndex = wizard.highestCompletedStepIndex

\* C36: after any sequence of goToStep, handleSetupComplete, handleTopicSelect,
\* handleOutlineComplete, handleDraftComplete and handleRestart, started from
\* the progress getInitialProgress computes for any stored state, the index of
\* activeStep in WORKFLOW_STEPS is at most highestCompletedStepIndex + 1, and a
\* goToStep with a greater index leaves activeStep unchanged.
C36_NeverAheadOfProgress == []C36_WithinReach /\ [][C36_BlockedStep]_vars

\* goToStep was refused for a step two or more past the progress that earlier
\* handlers had built up.
C36_Witness ==
    /\ wizard.last = "goToStep"
    /\ wizard.highestCompletedStepIndex >= 0
    /\ wizard.index > wizard.highestCompletedStepIndex + 1
    /\ IndexOfStep(wizard.activeStep) <= wizard.highestCompletedStepIndex + 1

\* ---- C37 ----

C37_SetupFields == {"websiteUrl", "country", "language"}

\* The handler that ran last left none of the given fields with another value.
C37_Keeps(fields) == wizard.changed \cap fields = {}

\* The field of appState is empty: [] for the two lists, '' for the others.
C37_IsEmpty(f) ==
    IF f \in {"outline", "internalLinks"}
    THEN Len(wizard.appState[f]) = 0
    ELSE wizard.appState[f] = ""

C37_Empty(fields) == \A f \in fields : C37_IsEmpty(f)

\* C37: the frame of each handler. handleSetupComplete empties topic, outline,
\* draft, imageUrl and internalLinks; handleTopicSelect empties outline, draft,
\* imageUrl and internalLinks and keeps websiteUrl, country and language;
\* handleOutlineComplete empties draft and imageUrl and keeps websiteUrl,
\* country, language and topic; handleDraftComplete changes only draft;
\* handleImageGenerated changes only imageUrl; goToStep changes no field of
\* appState.
C37_FrameEffects ==
    /\ wizard.last = "handleSetupComplete"
           => C37_Empty({"topic", "outline", "draft", "imageUrl", "internalLinks"})
    /\ wizard.last = "handleTopicSelect"
           => /\ C37_Empty({"outline", "draft", "imageUrl", "internalLinks"})
              /\ C37_Keeps(C37_SetupFields)
    /\ wizard.last = "handleOutlineComplete"
           => /\ C37_Empty({"draft", "imageUrl"})
              /\ C37_Keeps(C37_SetupFields \cup {"topic"})
    /\ wizard.last = "handleDraftComplete" => wizard.changed \subseteq {"draft"}
    /\ wizard.last = "handleImageGenerated" => wizard.changed \subseteq {"imageUrl"}
    /\ wizard.last = "goToStep" => wizard.changed = {}

\* handleTopicSelect ran on a wizard whose later fields were all filled: it
\* emptied the four of them, set the topic and kept the setup.
C37_Witness ==
    /\ wizard.last = "handleTopicSelect"
    /\ wizard.changed = {"topic", "outline", "draft", "imageUrl", "internalLinks"}
    /\ wizard.appState.websiteUrl # ""
    /\ wizard.appState.country # ""

\* handleDraftComplete replaced a draft and handleImageGenerated an image, with
\* every other field filled.
C37_WitnessSingleField ==
    /\ wizard.last \in {"handleDraftComplete", "handleImageGenerated"}
    /\ wizard.changed # {}
    /\ \A f \in DOMAIN wizard.appState \ wizard.changed : ~C37_IsEmpty(f)

\* ---- C38 ----

\* The progress a load of the page would compute now from the stored item.
C38_StoredProgress == getInitialProgress(getInitialState(wizard.stored)).index

\* The progress getInitialProgress computes from the live appState.
C38_LiveProgress == getInitialProgress(wizard.appState).index

C38_WitnessDataUrl ==
    /\ wizard.last = "handleImageGenerated"
    /\ ~wizard.emptyArgument
    /\ wizard.appState.imageUrl \in DataUrls
    /\ wizard.stored.present
    /\ wizard.stored.state.imageUrl = ""
    /\ wizard.highestCompletedStepIndex = 3

\* The second equality without its condition. It is not an invariant: where
\* the browser refuses setItem (the catch of line 90) the item stays absent
\* while the wizard advances, and a reload starts from the default state.
C38_StoredProgressAlways ==
    ~wizard.emptyArgument => C38_StoredProgress = wizard.highestCompletedStepIndex

\* The first equality without the proviso on the arguments. It is not an
\* invariant: handleDraftComplete('') sets the index 3 and leaves an empty
\* draft.
C38_LiveProgressAlways == C38_LiveProgress = wizard.highestCompletedStepIndex

\* ------------------------------------------------------------------------
\* The Publish component (src/components/AudioPublisher.tsx): the effect that
\* makes the AudioContext and returns the cleanup closing it, and
\* handleGenerateAudio, which reads audioContextRef after awaiting the speech.
\* ------------------------------------------------------------------------

\* Publish is mounted at most MaxMounts times, and its effect runs at most
\* MaxRuns times in one mount.
MaxMounts == 3
MaxRuns == 3

\* One run of the effect, lines 88-119: a context is made only when
\* audioContextRef.current is null (lines 89-91), and the cleanup the run
\* returns closes the context the ref held at line 117.
EffectRun(a) ==
    LET fresh == a.ref = 0
        ref == IF fresh THEN a.made + 1 ELSE a.ref
    IN  [a EXCEPT !.ref = ref,
                  !.made = IF fresh THEN a.made + 1 ELSE a.made,
                  !.captured = ref,
                  !.runs = a.runs + 1]

\* The cleanup of the last run, line 118: currentAudioContext?.close(). The
\* ref keeps the closed context.
Cleanup(a) ==
    [a EXCEPT !.closed = IF a.captured = 0 THEN a.closed ELSE a.closed \cup {a.captured},
              !.captured = 0]

\* handleGenerateAudio after generateSpeech resolved, lines 190-193: without a
\* context it throws, otherwise it hands the ref's context to decodeAudioData.
\* decoded is whether decodeAudioData (../utils/helpers) resolved.
UseContext(a, decoded) ==
    IF a.ref = 0
    THEN [a EXCEPT !.pc = "done", !.error = "Audio context not initialized."]
    ELSE [a EXCEPT !.pc = "done",
                   !.used = a.ref,
                   !.usedOpen = a.ref \notin a.closed,
                   !.usedRuns = a.runs,
                   !.error = IF decoded THEN "" ELSE "Failed to generate audio."]

\* Publish is mounted with a new ref and its effect runs; under React's
\* development double mount the cleanup and the effect run once more at once.
Mount ==
    /\ ~audio.mounted
    /\ audio.made < MaxMounts
    /\ \E strict \in BOOLEAN :
        LET first == EffectRun([audio EXCEPT !.mounted = TRUE, !.ref = 0, !.runs = 0,
                                             !.pc = "idle", !.used = 0,
                                             !.usedOpen = TRUE, !.usedRuns = 0,
                                             !.error = ""])
        IN  audio' = IF strict THEN EffectRun(Cleanup(first)) ELSE first

\* appState.draft or appState.topic changes while Publish is mounted: the
\* cleanup of the last run, then the effect again (dependencies of line 119).
DraftOrTopicChanges ==
    /\ audio.mounted
    /\ audio.runs < MaxRuns
    /\ audio' = EffectRun(Cleanup(audio))

\* Publish is unmounted: the cleanup runs, and a call of handleGenerateAudio
\* still waiting is followed no further.
Unmount ==
    /\ audio.mounted
    /\ audio' = [Cleanup(audio) EXCEPT !.mounted = FALSE, !.pc = "idle"]

\* handleGenerateAudio up to its await of generateSpeech, lines 182-188.
GenerateAudio ==
    /\ audio.mounted
    /\ audio.pc \in {"idle", "done"}
    /\ audio' = [audio EXCEPT !.pc = "speech", !.error = ""]

\* generateSpeech settles, lines 188-203: a rejection is shown as the error.
SpeechSettles ==
    /\ audio.mounted
    /\ audio.pc = "speech"
    /\ \E spoken \in BOOLEAN, decoded \in BOOLEAN :
        audio' = IF spoken
                 THEN UseContext(audio, decoded)
                 ELSE [audio EXCEPT !.pc = "done", !.error = "Failed to generate audio."]

InitAudio ==
    /\ call = IdleCall
    /\ probe = NoFailure
    /\ verdict = "none"
    /\ extraction = IdleExtraction
    /\ webhook = IdleWebhook
    /\ summary = IdleSummary
    /\ pair = IdlePair
    /\ strategy = IdleStrategy
    /\ reply = IdleReply
    /\ wizard = IdleWizard
    /\ audio = IdleAudio

NextAudio ==
    /\ \/ Mount
       \/ DraftOrTopicChanges
       \/ Unmount
       \/ GenerateAudio
       \/ SpeechSettles
    /\ UNCHANGED <<call, probe, verdict, extraction, webhook, summary, pair, strategy,
                   reply, wizard>>

SpecAudio == InitAudio /\ [][NextAudio]_vars

\* ---- C39 ----

\* C39: while Publish is mounted, the AudioContext in audioContextRef is open
\* whenever handleGenerateAudio uses it, after any sequence of effect runs and
\* cleanups: a context closed by the cleanup is never the one used afterwards.
C39_ContextOpenWhenUsed ==
    (audio.mounted /\ audio.used # 0) => audio.usedOpen

\* What does hold: the context used is open when the effect has run once in
\* this mount, so that no cleanup has run.
C39_OpenAfterSingleRun ==
    (audio.mounted /\ audio.used # 0 /\ audio.usedRuns = 1) => audio.usedOpen

\* The ref never holds a context other than the first one of the mount.
C39_RefKeepsFirstContext ==
    audio.mounted => audio.ref = audio.made

====
